---- MODULE Spec2Model ----
(***************************************************************************)
(* HEXCORE: the envelope-encryption engine (hex_engine.py), the vault      *)
(* manager (hex_file_mgmt.py) and the application (hex_core.py,            *)
(* hex_screens.py) over a small file system.                               *)
(*                                                                         *)
(* A file is a record [hdr, bytes]: hdr is <<>> for a file shorter than a  *)
(* header, or <<h>> when the file's first 114 bytes are the packed header  *)
(* h; bytes are the file's bytes (after the header when there is one).     *)
(* A path is a record [dir, name], both sequences of tokens ("a", ".txt",  *)
(* ".hxc", "_1"), so that prefix and suffix tests and stripping are exact. *)
(*                                                                         *)
(* The library primitives are modelled as ideal primitives: SHA-256 and    *)
(* Argon2id are injective terms, AES-GCM opens only under the key, nonce   *)
(* and associated data it was sealed with, and the stream ciphers XOR the  *)
(* data with a keystream that depends on the key, the nonce, the position  *)
(* and the cipher.                                                         *)
(***************************************************************************)
EXTENDS Integers, Sequences, FiniteSets, TLC

VARIABLES fs, last, phase, sealed, tamper, vm, ui, cc

vars == <<fs, last, phase, sealed, tamper, vm, ui, cc>>

----------------------------------------------------------------------------
(* Bounds of the model *)

\* longest plaintext payload, in bytes
MaxLen == 2
\* number of distinct random draws (DEK, body IV, salt, header IV) available
NumDraws == 2

(* Program constants *)
HEADER_SIZE == 114
BODY_IV_SIZE == 16
ALGO_AES == 0
ALGO_CHACHA == 1
VERSION == 1
MAGIC == <<72, 69, 88, 67>>

----------------------------------------------------------------------------
(* Bytes *)

Byte == 0..255

RECURSIVE XorBits(_, _, _)
XorBits(a, b, n) ==
    IF n = 0 THEN 0
    ELSE ((a + b) % 2) + 2 * XorBits(a \div 2, b \div 2, n - 1)

Xor(a, b) == XorBits(a, b, 8)

Min(a, b) == IF a < b THEN a ELSE b

Prefix(s, n) == SubSeq(s, 1, Min(n, Len(s)))

Suffix(s, n) == SubSeq(s, n + 1, Len(s))

RECURSIVE SumSeq(_)
SumSeq(s) == IF s = <<>> THEN 0 ELSE s[1] + SumSeq(Tail(s))

----------------------------------------------------------------------------
(* Library primitives (cryptography, hashlib) *)

\* hashlib.sha256(data).digest(): collision-free digest of the bytes hashed
SHA256(data) == [sha256 |-> data]

\* Argon2id(salt, length=32, iterations=1, lanes=4, memory_cost=65536).derive(password)
DeriveKey(password, salt) == [pw |-> password, salt |-> salt]

\* AESGCM(kek).encrypt(nonce, dek, associated_data): 32-byte ciphertext + 16-byte tag
AESGCMEncrypt(kek, nonce, dek, ad) ==
    [key |-> kek, nonce |-> nonce, ad |-> ad, pt |-> dek, intact |-> TRUE]

\* AESGCM(kek).decrypt(nonce, data, associated_data) raises InvalidTag unless the
\* key, the nonce and the associated data are those the data was sealed with
AESGCMOpens(kek, nonce, data, ad) ==
    data.intact /\ data.key = kek /\ data.nonce = nonce /\ data.ad = ad

\* keystream byte i (from 1) of AES-256-CTR (algo 0) or ChaCha20 (otherwise)
KeyStream(algo, dek, iv, i) ==
    IF algo = ALGO_AES
    THEN (dek * 31 + SumSeq(iv) * 17 + i * 7 + 13) % 256
    ELSE (dek * 57 + SumSeq(iv) * 29 + i * 11 + 101) % 256

\* encryptor.update / decryptor.update over the whole stream: XOR with the keystream
StreamCipher(algo, dek, iv, data) ==
    [i \in 1..Len(data) |-> Xor(data[i], KeyStream(algo, dek, iv, i))]

\* Cipher(AES(dek), CTR(iv)) and ChaCha20(dek, iv) raise ValueError unless the
\* nonce has 16 bytes
NonceOK(iv) == Len(iv) = BODY_IV_SIZE

----------------------------------------------------------------------------
(* Files and paths *)

RawFile(bytes) == [hdr |-> <<>>, bytes |-> bytes]

FileLen(f) == (IF f.hdr = <<>> THEN 0 ELSE HEADER_SIZE) + Len(f.bytes)

\* f.read(4) at the start of the file
First4(f) == IF f.hdr = <<>> THEN Prefix(f.bytes, 4) ELSE f.hdr[1].magic

Exists(fsys, p) == p \in DOMAIN fsys

WriteFile(fsys, p, f) == [q \in DOMAIN fsys \cup {p} |-> IF q = p THEN f ELSE fsys[q]]

RemoveFile(fsys, p) == [q \in DOMAIN fsys \ {p} |-> fsys[q]]

MkPath(d, n) == [dir |-> d, name |-> n]

AddSuffix(p, s) == [p EXCEPT !.name = Append(@, s)]

EndsWith(p, s) == Len(p.name) > 0 /\ p.name[Len(p.name)] = s

StripLast(p) == [p EXCEPT !.name = SubSeq(@, 1, Len(@) - 1)]

----------------------------------------------------------------------------
(* HexHeader *)

\* HexHeader.pack: the 114 packed bytes, kept as their fields
Pack(salt, iv, algo_id, encrypted_dek, body_checksum) ==
    [magic |-> MAGIC, version |-> VERSION, algo_id |-> algo_id, salt |-> salt,
     iv |-> iv, encrypted_dek |-> encrypted_dek, stored_checksum |-> body_checksum]

\* struct.pack format 'B' raises struct.error outside 0..255
PackOK(algo_id) == algo_id \in 0..255

\* HexHeader.unpack: "ok", or the ValueError it raises
UnpackStatus(f) ==
    IF FileLen(f) < HEADER_SIZE
    THEN "INVALID FILE: Header truncated or insufficient data."
    ELSE IF First4(f) # MAGIC
    THEN "INVALID FILE: Missing HexCore signature."
    ELSE "ok"

\* the header space reserved by out_f.seek(HEADER_SIZE): zero bytes until the
\* header is written
ZeroHeader ==
    [magic |-> <<0, 0, 0, 0>>, version |-> 0, algo_id |-> 0, salt |-> 0, iv |-> 0,
     encrypted_dek |-> [key |-> DeriveKey("", 0), nonce |-> 0, ad |-> SHA256(<<>>),
                        pt |-> 0, intact |-> FALSE],
     stored_checksum |-> SHA256(<<0>>)]

----------------------------------------------------------------------------
(* Inputs *)

Passwords == {"1234", "0000"}

\* the algorithm ids a caller passes: AES, ChaCha20, and one that does not fit
\* the header's one-byte field
AlgoIds == {ALGO_AES, ALGO_CHACHA, 256}

PlainBytes == {7, 72}

Payloads ==
    UNION {[1..n -> PlainBytes] : n \in 0..MaxLen} \cup {MAGIC, MAGIC \o <<7>>}

\* what os.urandom / AESGCM.generate_key return in one call of encrypt_file
Draw(r) ==
    [dek |-> r, salt |-> r, iv |-> r,
     body_iv |-> [i \in 1..BODY_IV_SIZE |-> IF i = BODY_IV_SIZE THEN r ELSE 0]]

Draws == {Draw(r) : r \in 1..NumDraws}

\* where the environment makes a call fail: at names the failing step ("none":
\* no step fails), rm tells that os.remove of the output raises OSError
NoFault == [at |-> "none", rm |-> FALSE]

EncFaults ==
    {NoFault} \cup {[at |-> a, rm |-> FALSE] : a \in {"peek", "open_out"}}
              \cup {[at |-> a, rm |-> b] : a \in {"stream", "kdf"}, b \in BOOLEAN}

DecFaults ==
    {[at |-> a, rm |-> b] : a \in {"none", "stream"}, b \in BOOLEAN}
        \cup {[at |-> a, rm |-> FALSE] : a \in {"open", "open_out"}}

----------------------------------------------------------------------------
(* EncryptionManager.encrypt_file *)

Result(fsys, ret, out, opened) ==
    [fs |-> fsys, ret |-> ret, out |-> out, opened |-> opened]

\* mutant: the body IV is not written
EncBodyNoIv(data, algo_id, d) == StreamCipher(algo_id, d.dek, d.body_iv, data)

\* the body written after the reserved header: body IV, then the ciphertext
EncBody(data, algo_id, d) ==
    d.body_iv \o StreamCipher(algo_id, d.dek, d.body_iv, data)

\* the header of a finished encryption
EncHeader(body, password, algo_id, d) ==
    Pack(d.salt, d.iv, algo_id,
         AESGCMEncrypt(DeriveKey(password, d.salt), d.iv, d.dek, SHA256(body)),
         SHA256(body))

\* the finished file: header, body IV, ciphertext
EncFile(data, password, algo_id, d) ==
    [hdr |-> <<EncHeader(EncBody(data, algo_id, d), password, algo_id, d)>>,
     bytes |-> EncBody(data, algo_id, d)]

\* mutants: no clean-up; the clean-up removes the source instead
EncCleanupSkipped(fsys, new_path, rmfails) == fsys

EncCleanupWrongPath(fsys, new_path, rmfails) ==
    IF Exists(fsys, StripLast(new_path)) THEN RemoveFile(fsys, StripLast(new_path)) ELSE fsys

\* except Exception: remove the partial output if it exists, swallowing OSError
EncCleanup(fsys, new_path, rmfails) ==
    IF Exists(fsys, new_path) /\ ~rmfails THEN RemoveFile(fsys, new_path) ELSE fsys

\* the try block that writes path + ".hxc"
EncWrite(fsys, file_path, password, algo_id, d, fault) ==
    LET new_path == AddSuffix(file_path, ".hxc")
        data     == fsys[file_path].bytes
        body     == EncBody(data, algo_id, d)
        failed(fsys1, opened) ==
            Result(EncCleanup(fsys1, new_path, fault.rm), "ENCRYPTION FAILED", new_path, opened)
    IN  IF fault.at = "open_out"
        THEN failed(fsys, FALSE)
        ELSE IF fault.at = "stream"
        THEN failed(WriteFile(fsys, new_path, [hdr |-> <<ZeroHeader>>, bytes |-> d.body_iv]), TRUE)
        ELSE IF fault.at = "kdf" \/ ~PackOK(algo_id)
        THEN failed(WriteFile(fsys, new_path, [hdr |-> <<ZeroHeader>>, bytes |-> body]), TRUE)
        ELSE Result(WriteFile(fsys, new_path, EncFile(data, password, algo_id, d)),
                    "new_path", new_path, TRUE)

\* mutant: the signature is never recognised
AlreadyEncryptedNever(f) == FALSE

\* the source already bears the magic signature
AlreadyEncrypted(f) == First4(f) = MAGIC

EncryptFile(fsys, file_path, password, algo_id, d, fault) ==
    LET new_path == AddSuffix(file_path, ".hxc")
    IN  IF ~Exists(fsys, file_path)
        THEN Result(fsys, "ERROR: File not found.", new_path, FALSE)
        ELSE IF fault.at = "peek"
        THEN Result(fsys, "ERROR: Could not read file.", new_path, FALSE)
        ELSE IF AlreadyEncrypted(fsys[file_path])
        THEN Result(fsys, "ERROR: File is already encrypted", new_path, FALSE)
        ELSE EncWrite(fsys, file_path, password, algo_id, d, fault)

----------------------------------------------------------------------------
(* EncryptionManager.decrypt_file *)

\* the output path: the path without ".hxc", else the path plus ".decrypted"
DecOutputPath(file_path) ==
    IF EndsWith(file_path, ".hxc") THEN StripLast(file_path)
    ELSE AddSuffix(file_path, ".decrypted")

\* mutants: the unwrap accepts any password; the unwrap ignores the associated data
UnwrapAnyPassword(h, password) ==
    AESGCMOpens(h.encrypted_dek.key, h.iv, h.encrypted_dek, h.stored_checksum)

UnwrapNoAad(h, password) ==
    AESGCMOpens(DeriveKey(password, h.salt), h.iv, h.encrypted_dek, h.encrypted_dek.ad)

\* aes_wrapper.decrypt(info['iv'], info['encrypted_dek'], associated_data=info['stored_checksum'])
\* under the key derived from the password and the header's salt
UnwrapOK(h, password) ==
    AESGCMOpens(DeriveKey(password, h.salt), h.iv, h.encrypted_dek, h.stored_checksum)

\* mutants: the body IV left out of the hash; the comparison left out
ChecksumOKNoIv(h, body) == SHA256(Suffix(body, BODY_IV_SIZE)) = h.stored_checksum

ChecksumOKSkipped(h, body) == TRUE

\* the comparison of the re-computed body hash with the stored checksum
ChecksumOK(h, body) == SHA256(body) = h.stored_checksum

\* except Exception: remove the output if it exists, swallowing OSError
DecCleanup(fsys, orig_path, rmfails) ==
    IF Exists(fsys, orig_path) /\ ~rmfails THEN RemoveFile(fsys, orig_path) ELSE fsys

\* the body of the try block once the DEK is unwrapped: streams the body to
\* the output path and compares the checksums
DecWrite(fsys, file_path, h, fault) ==
    LET orig_path == DecOutputPath(file_path)
        body      == fsys[file_path].bytes
        body_iv   == Prefix(body, BODY_IV_SIZE)
        dek       == h.encrypted_dek.pt
        plain     == StreamCipher(h.algo_id, dek, body_iv, Suffix(body, BODY_IV_SIZE))
        opened    == WriteFile(fsys, orig_path, RawFile(<<>>))
        written   == WriteFile(fsys, orig_path, RawFile(plain))
        crashed(fsys1, created) ==
            Result(DecCleanup(fsys1, orig_path, fault.rm), "DECRYPTION ERROR", orig_path, created)
    IN  IF fault.at = "open_out"
        THEN crashed(fsys, FALSE)
        ELSE IF ~NonceOK(body_iv)
        THEN \* ValueError from the cipher set-up: caught by "except ValueError"
             Result(opened, "Invalid nonce size", orig_path, TRUE)
        ELSE IF fault.at = "stream"
        THEN crashed(opened, TRUE)
        ELSE IF ~ChecksumOK(h, body)
        THEN IF fault.rm
             THEN \* os.remove raises inside the try block
                  crashed(written, TRUE)
             ELSE Result(RemoveFile(written, orig_path),
                         "ERROR: INTEGRITY CHECK FAILED (BODY CORRUPTED)", orig_path, TRUE)
        ELSE Result(written, "SUCCESS", orig_path, TRUE)

DecryptFile(fsys, file_path, password, fault) ==
    LET orig_path == DecOutputPath(file_path)
    IN  IF ~Exists(fsys, file_path) \/ fault.at = "open"
        THEN Result(fsys, "DECRYPTION ERROR", orig_path, FALSE)
        ELSE IF UnpackStatus(fsys[file_path]) # "ok"
        THEN Result(fsys, UnpackStatus(fsys[file_path]), orig_path, FALSE)
        ELSE IF ~UnwrapOK(fsys[file_path].hdr[1], password)
        THEN Result(fsys, "WRONG PASSWORD OR TAMPERED HEADER", orig_path, FALSE)
        ELSE DecWrite(fsys, file_path, fsys[file_path].hdr[1], fault)

----------------------------------------------------------------------------
(* EncryptionManager.verify_integrity *)

\* where the environment makes verify_integrity fail
VerifyFaults == {NoFault, [at |-> "open", rm |-> FALSE], [at |-> "stream", rm |-> FALSE]}

\* mutant: the hash leaves out the body IV
VerifyHashOKNoIv(h, body) == SHA256(Suffix(body, BODY_IV_SIZE)) = h.stored_checksum

\* stored_hash == calculated_hash, the hash being over every byte after the header
VerifyHashOK(h, body) == SHA256(body) = h.stored_checksum

\* mutant: a corrupted file is deleted
VerifyDeletesCorrupted(fsys, file_path, fault) ==
    IF Exists(fsys, file_path) /\ fsys[file_path].hdr # <<>>
          /\ ~VerifyHashOK(fsys[file_path].hdr[1], fsys[file_path].bytes)
    THEN Result(RemoveFile(fsys, file_path), "CORRUPTED", file_path, FALSE)
    ELSE Result(fsys, "INVALID FILE", file_path, FALSE)

VerifyIntegrity(fsys, file_path, fault) ==
    IF ~Exists(fsys, file_path) \/ fault.at = "open"
    THEN Result(fsys, "ERROR READING FILE", file_path, FALSE)
    ELSE IF FileLen(fsys[file_path]) < HEADER_SIZE
    THEN Result(fsys, "INVALID FILE", file_path, FALSE)
    ELSE IF First4(fsys[file_path]) # MAGIC
    THEN Result(fsys, "INVALID FILE", file_path, FALSE)
    ELSE IF fault.at = "stream"
    THEN Result(fsys, "ERROR READING FILE", file_path, FALSE)
    ELSE IF VerifyHashOK(fsys[file_path].hdr[1], fsys[file_path].bytes)
    THEN Result(fsys, "INTEGRITY OK", file_path, FALSE)
    ELSE Result(fsys, "CORRUPTED", file_path, FALSE)

----------------------------------------------------------------------------
(* VaultManager: paths *)

VAULT_DIR == <<"HEX_VAULT">>

EXPORT_DIR == <<"HEX_EXPORTS">>

IsPrefix(pre, str) == Len(pre) <= Len(str) /\ SubSeq(str, 1, Len(pre)) = pre

\* os.path.abspath(p), as the tokens of the string
AbsPath(p) == p.dir \o <<"/">> \o p.name

\* abs_src.startswith(abs_vault)
InVault(p) == IsPrefix(VAULT_DIR, AbsPath(p))

\* os.path.join(self.VAULT_DIR, os.path.basename(encrypted_path))
VaultDest(encrypted_path) == MkPath(VAULT_DIR, encrypted_path.name)

\* the name tokens that begin with a dot
DotTokens == {".b", ".hxc", ".txt", ".decrypted"}

\* glob._ishidden: the file name begins with a dot
Hidden(name) == Len(name) > 0 /\ name[1] \in DotTokens

\* glob.glob(os.path.join(self.VAULT_DIR, "*.hxc")): the set of matches; a
\* pattern that does not begin with a dot matches no name that begins with one
VaultFiles(fsys) ==
    {p \in DOMAIN fsys : p.dir = VAULT_DIR /\ EndsWith(p, ".hxc") /\ ~Hidden(p.name)}

\* the orders in which glob may list a set of paths
Orders(S) == {q \in [1..Cardinality(S) -> S] : \A i, j \in DOMAIN q : i # j => q[i] # q[j]}

\* the plaintext path decrypt_vault expects: the entry without its ".hxc"
PlaintextPath(encrypted_file) ==
    IF EndsWith(encrypted_file, ".hxc") THEN StripLast(encrypted_file) ELSE encrypted_file

\* os.path.splitext(filename): <<base tokens, ext tokens>>
SplitExt(name) ==
    IF Len(name) > 1 /\ name[Len(name)] \in {".hxc", ".txt", ".decrypted"}
    THEN <<SubSeq(name, 1, Len(name) - 1), <<name[Len(name)]>>>>
    ELSE <<name, <<>>>>

\* f"{base_name}_{counter}{ext}"
Numbered(name, counter) ==
    SplitExt(name)[1] \o <<"_" \o ToString(counter)>> \o SplitExt(name)[2]

\* the collision loop: the first free name among name, name_1, name_2, ...
RECURSIVE FreeTarget(_, _, _)
FreeTarget(fsys, name, counter) ==
    IF ~Exists(fsys, MkPath(EXPORT_DIR, Numbered(name, counter)))
    THEN MkPath(EXPORT_DIR, Numbered(name, counter))
    ELSE FreeTarget(fsys, name, counter + 1)

\* mutant: the export never looks for a free name
ExportTargetOverwrites(fsys, name) == MkPath(EXPORT_DIR, name)

\* target_path: the name itself when it is free, else the first free numbered name
ExportTarget(fsys, name) ==
    IF ~Exists(fsys, MkPath(EXPORT_DIR, name)) THEN MkPath(EXPORT_DIR, name)
    ELSE FreeTarget(fsys, name, 1)

\* mutant: the move leaves the file where it was
MoveFileCopies(fsys, src, dst) == WriteFile(fsys, dst, fsys[src])

\* shutil.move(src, dst) of a file
MoveFile(fsys, src, dst) == RemoveFile(WriteFile(fsys, dst, fsys[src]), src)

NoResults == [success |-> 0, failed |-> 0, errors |-> <<>>]

\* the vault manager between calls: ret is what the last call returned
\* ("stats" when decrypt_vault returned its results), results the stats, listed
\* the list glob returned, queue what is left of it, tried the files handed to
\* engine.decrypt_file so far, docs the files the call is to process or
\* replace, as they were when the call began, faulted that a file-system call
\* of this call has raised
VmIdle ==
    [op |-> "idle", pc |-> "idle", src |-> MkPath(<<>>, <<>>), pw |-> "", algo |-> 0,
     del |-> FALSE, enc |-> MkPath(<<>>, <<>>), queue |-> <<>>, listed |-> <<>>,
     tried |-> <<>>, results |-> NoResults, ret |-> "", docs |-> <<>>, faulted |-> FALSE]

\* a progress value, kept as the fraction num / den
Frac(num, den) == [num |-> num, den |-> den]

\* no background thread: pc is the thread's position in _thread_task, todo the
\* messages its current statement block has still to put on the queue, files
\* the list glob returned to _handle_verify, i the files verified so far
TaskNone ==
    [pc |-> "none", action |-> "", path |-> MkPath(<<>>, <<>>), todo |-> <<>>,
     files |-> <<>>, i |-> 0, issues |-> 0]

\* the application as App.__init__ and LayoutManager.__init__ leave it: state
\* is App.state, input_text the login screen's digits, loading / load_prog /
\* pending_task the layout manager's fields, important the banner of the log,
\* active / selection_result the file picker's fields (selection_result is
\* <<>> for None) and batch its batch_mode, queue the ui_queue, task the
\* background thread. sent lists the messages the current task has put on
\* the queue, got those _process_queue has applied.
UiOff ==
    [state |-> "LOGIN", input_text |-> <<>>, loading |-> FALSE, load_prog |-> Frac(0, 1),
     important |-> "", active |-> FALSE, pending_task |-> "", selection_result |-> <<>>,
     batch |-> FALSE, queue |-> <<>>, task |-> TaskNone, sent |-> <<>>, got |-> <<>>]

\* no concurrent callers
CcOff == <<>>

----------------------------------------------------------------------------
(* The engine called directly on files of a working directory *)

WorkFile == MkPath(<<"work">>, <<"a">>)

WorkHxc == AddSuffix(WorkFile, ".hxc")

EncTargets == {WorkFile, WorkHxc}

DecTargets == {WorkHxc, WorkFile}

NoCall ==
    [op |-> "none", path |-> WorkFile, pw |-> "", algo |-> 0, fault |-> NoFault,
     ret |-> "", out |-> WorkFile, opened |-> FALSE]

Call(op, path, pw, algo, fault, r) ==
    [op |-> op, path |-> path, pw |-> pw, algo |-> algo, fault |-> fault,
     ret |-> r.ret, out |-> r.out, opened |-> r.opened]

\* a file that decrypt_file accepts under the password it was sealed with
Intact(f) ==
    /\ UnpackStatus(f) = "ok"
    /\ f.hdr[1].encrypted_dek.intact
    /\ UnwrapOK(f.hdr[1], f.hdr[1].encrypted_dek.key.pw)
    /\ NonceOK(Prefix(f.bytes, BODY_IV_SIZE))
    /\ ChecksumOK(f.hdr[1], f.bytes)

\* phase: 0 before the first call, 1 once encrypt_file has run, 2 once the
\* encrypted file has been tampered with, 3 after the last call.
\* sealed records what the successful encrypt_file call was given, tamper what
\* was done to its output since ("none", "body", "truncate", "checksum",
\* "version", "magic", "algo_id", "salt", "iv", "encrypted_dek").
NotSealed == [ok |-> FALSE, data |-> <<>>, pw |-> "", algo |-> 0]

Init ==
    /\ fs \in {WriteFile(<<>>, WorkFile, RawFile(pl)) : pl \in Payloads}
    /\ last = NoCall
    /\ phase = 0
    /\ sealed = NotSealed
    /\ tamper = "none"
    /\ vm = VmIdle
    /\ ui = UiOff
    /\ cc = CcOff

\* encrypt_file on the plaintext
Encrypt ==
    \E pw \in Passwords, algo \in AlgoIds, d \in Draws, flt \in EncFaults :
        /\ phase = 0
        /\ LET r == EncryptFile(fs, WorkFile, pw, algo, d, flt)
           IN  /\ fs' = r.fs
               /\ last' = Call("encrypt", WorkFile, pw, algo, flt, r)
               /\ sealed' = IF r.ret = "new_path"
                            THEN [ok |-> TRUE, data |-> fs[WorkFile].bytes, pw |-> pw, algo |-> algo]
                            ELSE NotSealed
        /\ phase' = 1
        /\ UNCHANGED <<tamper, vm, ui, cc>>

\* encrypt_file on the path of the encrypted file
EncryptAgain ==
    \E pw \in Passwords, algo \in AlgoIds, d \in Draws :
        /\ phase = 1
        /\ Exists(fs, WorkHxc) => First4(fs[WorkHxc]) = MAGIC
        /\ LET r == EncryptFile(fs, WorkHxc, pw, algo, d, NoFault)
           IN  /\ fs' = r.fs
               /\ last' = Call("encrypt", WorkHxc, pw, algo, NoFault, r)
        /\ phase' = 3
        /\ UNCHANGED <<sealed, tamper, vm, ui, cc>>

Decrypt ==
    \E p \in DecTargets, pw \in Passwords, flt \in DecFaults :
        /\ phase \in {1, 2}
        /\ p = WorkFile => (phase = 1 /\ flt = NoFault)
        /\ LET r == DecryptFile(fs, p, pw, flt)
           IN  /\ fs' = r.fs
               /\ last' = Call("decrypt", p, pw, 0, flt, r)
        /\ phase' = 3
        /\ UNCHANGED <<sealed, tamper, vm, ui, cc>>

\* verify_integrity on the encrypted file or on the plaintext
Verify ==
    \E p \in DecTargets, flt \in VerifyFaults :
        /\ phase \in {1, 2}
        /\ LET r == VerifyIntegrity(fs, p, flt)
           IN  /\ fs' = r.fs
               /\ last' = Call("verify", p, "", 0, flt, r)
        /\ UNCHANGED <<phase, sealed, tamper, vm, ui, cc>>

\* the user deletes the plaintext beside the encrypted file
EnvRemove ==
    /\ phase = 1
    /\ Exists(fs, WorkFile)
    /\ Exists(fs, WorkHxc)
    /\ fs' = RemoveFile(fs, WorkFile)
    /\ last' = NoCall
    /\ UNCHANGED <<phase, sealed, tamper, vm, ui, cc>>

FlipMasks == {1, 128}

\* one bit of one body byte (body IV or ciphertext) is flipped
TamperBody ==
    \E i \in 1..(BODY_IV_SIZE + MaxLen), m \in FlipMasks :
        /\ phase = 1
        /\ sealed.ok
        /\ i <= Len(fs[WorkHxc].bytes)
        /\ fs' = [fs EXCEPT ![WorkHxc].bytes[i] = Xor(@, m)]
        /\ last' = NoCall
        /\ phase' = 2
        /\ tamper' = "body"
        /\ UNCHANGED <<sealed, vm, ui, cc>>

\* the file is cut to n body bytes
TruncateBody ==
    \E n \in 0..(BODY_IV_SIZE + MaxLen) :
        /\ phase = 1
        /\ sealed.ok
        /\ n < Len(fs[WorkHxc].bytes)
        /\ fs' = [fs EXCEPT ![WorkHxc].bytes = Prefix(@, n)]
        /\ last' = NoCall
        /\ phase' = 2
        /\ tamper' = "truncate"
        /\ UNCHANGED <<sealed, vm, ui, cc>>

\* the stored checksum field is changed: to another digest, or to the digest
\* of the body with one bit flipped
TamperChecksum ==
    /\ phase = 1
    /\ sealed.ok
    /\ \E other \in {<<>>, [fs[WorkHxc].bytes EXCEPT ![1] = Xor(@, 1)]} :
           fs' = [fs EXCEPT ![WorkHxc].hdr[1].stored_checksum = SHA256(other)]
    /\ last' = NoCall
    /\ phase' = 2
    /\ tamper' = "checksum"
    /\ UNCHANGED <<sealed, vm, ui, cc>>

\* the version byte of the header is changed
TamperVersion ==
    \E v \in {0, 2} :
        /\ phase = 1
        /\ sealed.ok
        /\ fs' = [fs EXCEPT ![WorkHxc].hdr[1].version = v]
        /\ last' = NoCall
        /\ phase' = 2
        /\ tamper' = "version"
        /\ UNCHANGED <<sealed, vm, ui, cc>>

\* one bit of the last byte of the magic signature is flipped
TamperMagic ==
    /\ phase = 1
    /\ sealed.ok
    /\ fs' = [fs EXCEPT ![WorkHxc].hdr[1].magic[4] = Xor(@, 1)]
    /\ last' = NoCall
    /\ phase' = 2
    /\ tamper' = "magic"
    /\ UNCHANGED <<sealed, vm, ui, cc>>

\* the algorithm byte of the header is changed
TamperAlgo ==
    \E a \in {ALGO_AES, ALGO_CHACHA, 2} :
        /\ phase = 1
        /\ sealed.ok
        /\ a # fs[WorkHxc].hdr[1].algo_id
        /\ fs' = [fs EXCEPT ![WorkHxc].hdr[1].algo_id = a]
        /\ last' = NoCall
        /\ phase' = 2
        /\ tamper' = "algo_id"
        /\ UNCHANGED <<sealed, vm, ui, cc>>

\* the salt, the wrapping nonce or the wrapped key of the header is changed
TamperWrap ==
    \E field \in {"salt", "iv", "encrypted_dek"} :
        /\ phase = 1
        /\ sealed.ok
        /\ fs' = [fs EXCEPT ![WorkHxc].hdr[1] =
                     IF field = "salt" THEN [@ EXCEPT !.salt = @ + 1]
                     ELSE IF field = "iv" THEN [@ EXCEPT !.iv = @ + 1]
                     ELSE [@ EXCEPT !.encrypted_dek.intact = FALSE]]
        /\ last' = NoCall
        /\ phase' = 2
        /\ tamper' = field
        /\ UNCHANGED <<sealed, vm, ui, cc>>

Next ==
    \/ Encrypt
    \/ EncryptAgain
    \/ Decrypt
    \/ Verify
    \/ EnvRemove
    \/ TamperBody
    \/ TruncateBody
    \/ TamperChecksum
    \/ TamperVersion
    \/ TamperMagic
    \/ TamperAlgo
    \/ TamperWrap

Spec == Init /\ [][Next]_vars

----------------------------------------------------------------------------
(* Claims about the engine *)

IntegrityError == "ERROR: INTEGRITY CHECK FAILED (BODY CORRUPTED)"

AuthError == "WRONG PASSWORD OR TAMPERED HEADER"

\* the last call was decrypt_file on the encrypted file, with the sealing password
DecryptedWithRightPw(l) ==
    l.op = "decrypt" /\ l.path = WorkHxc /\ sealed.ok /\ l.pw = sealed.pw

\* C1 as stated: for every plaintext payload, every password and both algorithm
\* ids, encrypt_file returns path + ".hxc" (and decrypt_file then restores the bytes).
C1_EveryPayloadEncrypts ==
    (last.op = "encrypt" /\ last.path = WorkFile /\ last.fault = NoFault
        /\ last.algo \in {ALGO_AES, ALGO_CHACHA})
    => (last.ret = "new_path" /\ last.out = WorkHxc)

\* C1 amended: for every payload that does not begin with the magic signature,
\* every password and both algorithm ids, encrypt_file returns path + ".hxc",
\* and decrypt_file on that file with the same password returns SUCCESS and
\* leaves exactly the encrypted bytes at the output path.
C1_RoundTrip ==
    /\ (last.op = "encrypt" /\ last.path = WorkFile /\ last.fault = NoFault
            /\ last.algo \in {ALGO_AES, ALGO_CHACHA} /\ First4(fs[WorkFile]) # MAGIC)
       => (last.ret = "new_path" /\ last.out = WorkHxc /\ Exists(fs, WorkHxc) /\ sealed.ok)
    /\ (DecryptedWithRightPw(last) /\ tamper = "none" /\ last.fault = NoFault)
       => (/\ last.ret = "SUCCESS"
           /\ last.out = WorkFile
           /\ Exists(fs, last.out)
           /\ fs[last.out] = RawFile(sealed.data))

C1_Witness ==
    /\ DecryptedWithRightPw(last) /\ tamper = "none" /\ last.fault = NoFault
    /\ last.ret = "SUCCESS"
    /\ Len(sealed.data) = MaxLen
    /\ sealed.algo = ALGO_CHACHA

\* C2: after one bit of a body byte (body IV or ciphertext) of an encrypted file
\* is flipped, the header left intact, decrypt_file with the right password
\* returns the integrity error and no file exists at the output path.
C2_BodyTamperDetected ==
    (DecryptedWithRightPw(last) /\ tamper = "body" /\ last.fault = NoFault)
    => (last.ret = IntegrityError /\ ~Exists(fs, last.out))

C2_Witness ==
    /\ DecryptedWithRightPw(last) /\ tamper = "body" /\ last.fault = NoFault
    /\ last.ret = IntegrityError
    /\ last.opened
    /\ Len(sealed.data) > 0

\* C3: decrypt_file on an untampered encrypted file with a password other than
\* the sealing one never returns SUCCESS nor the integrity error, returns the
\* combined authentication error whenever the header could be read, and opens
\* no output: the file system is as before the call.
C3_WrongPassword ==
    [][(last'.op = "decrypt" /\ last'.path = WorkHxc /\ sealed.ok /\ tamper = "none"
            /\ last'.pw # sealed.pw)
       => (/\ last'.ret \notin {"SUCCESS", IntegrityError}
           /\ last'.fault.at # "open" => last'.ret = AuthError
           /\ ~last'.opened
           /\ fs' = fs)]_vars

C3_Witness ==
    /\ last.op = "decrypt" /\ last.path = WorkHxc /\ sealed.ok /\ tamper = "none"
    /\ last.pw # sealed.pw
    /\ last.ret = AuthError

\* C4: after the stored checksum field of the header is changed, decrypt_file
\* with the right password returns the authentication error whenever the header
\* could be read, and no output file is created or written.
C4_ChecksumTamperDetected ==
    [][(DecryptedWithRightPw(last') /\ tamper = "checksum")
       => (/\ last'.ret \notin {"SUCCESS", IntegrityError}
           /\ last'.fault.at # "open" => last'.ret = AuthError
           /\ ~last'.opened
           /\ fs' = fs)]_vars

C4_Witness ==
    /\ DecryptedWithRightPw(last) /\ tamper = "checksum"
    /\ last.ret = AuthError
    /\ ~Exists(fs, last.out)

\* C5: whenever decrypt_file returns a failure after it created the output
\* file, the output file is gone when it returns (stated for the calls in which
\* os.remove itself does not fail).
C5_OutputDeletedOnFailure ==
    (last.op = "decrypt" /\ last.opened /\ last.ret # "SUCCESS" /\ ~last.fault.rm)
    => ~Exists(fs, last.out)

C7_AlreadyEncryptedGuard ==
    [][(last'.op = "encrypt")
       => (/\ (Exists(fs, last'.path) /\ First4(fs[last'.path]) = MAGIC)
              => (/\ fs' = fs
                  /\ last'.fault.at # "peek" => last'.ret = "ERROR: File is already encrypted")
           /\ ~Exists(fs, last'.path)
              => (fs' = fs /\ last'.ret = "ERROR: File not found."))]_vars

C7_Witness ==
    /\ last.op = "encrypt" /\ last.path = WorkHxc
    /\ last.ret = "ERROR: File is already encrypted"
    /\ ~Exists(fs, AddSuffix(WorkHxc, ".hxc"))

\* C8: encrypt_file leaves every file other than path + ".hxc" as it was (the
\* source included), whatever the outcome, and on success path + ".hxc" exists.
C8_EncryptFrame ==
    [][(last'.op = "encrypt")
       => (/\ \A q \in (DOMAIN fs \cup DOMAIN fs') \ {last'.out} :
                 q \in DOMAIN fs /\ q \in DOMAIN fs' /\ fs'[q] = fs[q]
           /\ last'.out = AddSuffix(last'.path, ".hxc")
           /\ last'.ret = "new_path" => Exists(fs', last'.out))]_vars

C8_Witness ==
    /\ last.op = "encrypt" /\ last.ret = "ENCRYPTION FAILED" /\ last.opened
    /\ Exists(fs, WorkFile)

\* C19: verify_integrity creates, changes and deletes no file, and applied
\* again to the unchanged file it returns what it returned the first time.
C19_VerifyReadOnly ==
    [][(last'.op = "verify")
       => /\ fs' = fs
          /\ last'.fault = NoFault
             => VerifyIntegrity(fs', last'.path, NoFault).ret = last'.ret]_vars

C19_Witness ==
    /\ last.op = "verify" /\ last.path = WorkHxc /\ last.fault = NoFault
    /\ last.ret = "CORRUPTED"
    /\ Exists(fs, WorkHxc)
    /\ Exists(fs, WorkFile)

\* C20: verify_integrity returns INTEGRITY OK for a file encrypt_file produced
\* and nobody changed; CORRUPTED when the header is well formed and the body
\* (body IV and ciphertext) or the stored checksum was changed, or the body cut;
\* INVALID FILE when the file is shorter than a header or lacks the magic.
C20_VerifyOutcome ==
    (last.op = "verify" /\ last.fault = NoFault /\ Exists(fs, last.path))
    => /\ (last.path = WorkHxc /\ sealed.ok /\ tamper = "none") => last.ret = "INTEGRITY OK"
       /\ (last.path = WorkHxc /\ sealed.ok /\ tamper \in {"body", "truncate", "checksum"})
          => last.ret = "CORRUPTED"
       /\ (UnpackStatus(fs[last.path]) = "ok"
              /\ SHA256(fs[last.path].bytes) # fs[last.path].hdr[1].stored_checksum)
          => last.ret = "CORRUPTED"
       /\ (FileLen(fs[last.path]) < HEADER_SIZE \/ First4(fs[last.path]) # MAGIC)
          => last.ret = "INVALID FILE"

C20_Witness ==
    /\ last.op = "verify" /\ last.path = WorkHxc /\ last.fault = NoFault
    /\ sealed.ok /\ tamper = "none"
    /\ last.ret = "INTEGRITY OK"
    /\ Len(sealed.data) = MaxLen

\* C28: decrypt_file and verify_integrity reject with a format error every
\* file whose magic is not the signature or whose version is not 1: such a
\* file is never decrypted and never reported INTEGRITY OK.
C28_MagicAndVersionChecked ==
    (last.op \in {"decrypt", "verify"} /\ last.fault = NoFault /\ Exists(fs, last.path)
        /\ fs[last.path].hdr # <<>>
        /\ (fs[last.path].hdr[1].magic # MAGIC \/ fs[last.path].hdr[1].version # VERSION))
    => (/\ last.ret \notin {"SUCCESS", "INTEGRITY OK"}
        /\ last.op = "decrypt"
           => last.ret \in {"INVALID FILE: Missing HexCore signature.",
                            "INVALID FILE: Header truncated or insufficient data."}
        /\ last.op = "verify" => last.ret = "INVALID FILE")

\* C30: the file a successful encrypt_file writes for a plaintext of n bytes
\* has exactly 114 + 16 + n bytes, under AES-256-CTR and under ChaCha20.
C30_EncryptedLength ==
    (last.op = "encrypt" /\ last.ret = "new_path")
    => (/\ Exists(fs, last.out)
        /\ Exists(fs, last.path)
        /\ last.algo \in {ALGO_AES, ALGO_CHACHA}
        /\ FileLen(fs[last.out]) = 114 + 16 + FileLen(fs[last.path]))

C30_Witness ==
    /\ last.op = "encrypt" /\ last.ret = "new_path"
    /\ last.algo = ALGO_CHACHA
    /\ FileLen(fs[last.path]) = MaxLen
    /\ FileLen(fs[last.out]) = 114 + 16 + MaxLen

----------------------------------------------------------------------------
(* VaultManager.encrypt_and_store and VaultManager.decrypt_vault, step by step *)

\* most files the export directory and the vault may hold together when
\* decrypt_vault starts
MaxExports == 3

\* Config.ACCESS_PASSWORD, the password the application stores files under
ACCESS_PASSWORD == "1234"

DocsDir == <<"docs">>

\* a directory beside the vault whose name begins with the vault's name
SiblingDir == <<"HEX_VAULT", "_backup">>

\* the plaintext documents of the user, each with its own content
SourceData ==
    (MkPath(DocsDir, <<"a">>) :> <<7>>) @@ (MkPath(DocsDir, <<"a", ".hxc">>) :> <<72, 7>>)
        @@ (MkPath(DocsDir, <<".b">>) :> <<9>>) @@ (MkPath(SiblingDir, <<"a">>) :> <<11>>)

StoreTargets == DOMAIN SourceData \cup {MkPath(VAULT_DIR, <<"a", ".hxc">>)}

\* the sets of documents the user starts with: two whose names differ by the
\* ".hxc" ending; a hidden one and one in the directory beside the vault
SourceSets ==
    {{MkPath(DocsDir, <<"a">>), MkPath(DocsDir, <<"a", ".hxc">>)},
     {MkPath(DocsDir, <<".b">>), MkPath(SiblingDir, <<"a">>)}}

VaultInit ==
    /\ fs \in {[p \in S |-> RawFile(SourceData[p])] : S \in SourceSets}
    /\ last = NoCall
    /\ phase = 0
    /\ sealed = NotSealed
    /\ tamper = "none"
    /\ vm = VmIdle
    /\ ui = UiOff
    /\ cc = CcOff

\* no call in progress: none made yet, the last one returned, or it raised
VmReady == vm.pc \in {"idle", "done", "raised"}

\* a run is followed up to the end of the first call in which the environment
\* made a file-system call fail
CanCall == VmReady /\ ~vm.faulted

Faulted(v) == [v EXCEPT !.faulted = TRUE]

Return(v, status) == [v EXCEPT !.pc = "done", !.ret = status]

\* an exception leaves the operation: the caller gets no value
Raise(v) == [v EXCEPT !.pc = "raised", !.ret = ""]

\* the engine faults met inside encrypt_and_store
StoreFaults == {NoFault, [at |-> "stream", rm |-> FALSE]}

\* the random values play no part in the vault manager's own steps
VaultDraws == {Draw(1)}

\* In the steps below F is the set of outcomes the environment may give the
\* step's file-system call: FALSE (it succeeds), TRUE (it raises OSError).

\* encrypt_and_store(src, engine, ACCESS_PASSWORD, algo, del) up to the engine's
\* return, the engine drawing d and meeting the fault flt
StoreBegin(src, algo, del, d, flt) ==
    LET v == [VmIdle EXCEPT !.op = "store", !.src = src, !.pw = ACCESS_PASSWORD,
                            !.algo = algo, !.del = del, !.faulted = (flt # NoFault),
                            !.docs = [p \in {src, VaultDest(AddSuffix(src, ".hxc"))}
                                               \cap DOMAIN fs |-> fs[p]]]
        r == EncryptFile(fs, src, ACCESS_PASSWORD, algo, d, flt)
    IN  IF ~Exists(fs, src)
        THEN vm' = Return(v, "ERROR: File does not exist.") /\ fs' = fs
        ELSE IF InVault(src)
        THEN vm' = Return(v, "ERROR: File is already in the Vault.") /\ fs' = fs
        ELSE IF r.ret # "new_path"
        THEN vm' = Return(v, r.ret) /\ fs' = r.fs
        ELSE vm' = [v EXCEPT !.pc = "replace", !.enc = r.out] /\ fs' = r.fs

\* a call of encrypt_and_store; EF is the set of faults the environment may
\* give the engine's call
StoreCall(EF) ==
    \E src \in StoreTargets, algo \in {ALGO_AES, ALGO_CHACHA}, del \in BOOLEAN,
       d \in VaultDraws, flt \in EF :
        /\ CanCall
        /\ StoreBegin(src, algo, del, d, flt)
        /\ UNCHANGED <<last, phase, sealed, tamper, ui, cc>>

\* if os.path.exists(dest_path): os.remove(dest_path)
StoreReplace(F) ==
    /\ vm.op = "store" /\ vm.pc = "replace"
    /\ IF Exists(fs, VaultDest(vm.enc))
       THEN \E fails \in F :
               IF fails
               THEN vm' = Return(Faulted(vm), "VAULT ERROR") /\ fs' = fs
               ELSE vm' = [vm EXCEPT !.pc = "move"] /\ fs' = RemoveFile(fs, VaultDest(vm.enc))
       ELSE vm' = [vm EXCEPT !.pc = "move"] /\ fs' = fs
    /\ UNCHANGED <<last, phase, sealed, tamper, ui, cc>>

\* mutant: the original is deleted whatever delete_original says
AfterMoveAlwaysDeletes(v) == [v EXCEPT !.pc = "cleanup"]

\* if delete_original: ... ; return "SUCCESS: File Encrypted & Moved to Vault"
AfterMove(v) ==
    IF v.del THEN [v EXCEPT !.pc = "cleanup"]
    ELSE Return(v, "SUCCESS: File Encrypted & Moved to Vault")

\* shutil.move(encrypted_path, dest_path)
StoreMove(F) ==
    /\ vm.op = "store" /\ vm.pc = "move"
    /\ \E fails \in F :
          IF fails
          THEN vm' = Return(Faulted(vm), "VAULT ERROR") /\ fs' = fs
          ELSE /\ fs' = MoveFile(fs, vm.enc, VaultDest(vm.enc))
               /\ vm' = AfterMove(vm)
    /\ UNCHANGED <<last, phase, sealed, tamper, ui, cc>>

\* if delete_original: os.remove(original_path)
StoreCleanup(F) ==
    /\ vm.op = "store" /\ vm.pc = "cleanup"
    /\ \E fails \in F :
          IF fails
          THEN vm' = Return(Faulted(vm), "SUCCESS: Encrypted, but failed to delete original.") /\ fs' = fs
          ELSE /\ vm' = Return(vm, "SUCCESS: File Encrypted & Moved to Vault")
               /\ fs' = RemoveFile(fs, vm.src)
    /\ UNCHANGED <<last, phase, sealed, tamper, ui, cc>>

\* mutant: a failure ends the batch
FailedAborts(v, reason) ==
    [v EXCEPT !.results.failed = @ + 1,
              !.results.errors = Append(@, [file |-> Head(v.queue).name, reason |-> reason]),
              !.queue = <<>>, !.pc = "done", !.ret = "stats"]

\* the end of one iteration of the loop over vault_files
NextFile(v) ==
    IF Len(v.queue) = 1 THEN [v EXCEPT !.queue = <<>>, !.pc = "done", !.ret = "stats"]
    ELSE [v EXCEPT !.queue = Tail(@), !.pc = "decrypt"]

Failed(v, reason) ==
    NextFile([v EXCEPT !.results.failed = @ + 1,
                       !.results.errors = Append(@, [file |-> Head(v.queue).name, reason |-> reason])])

Succeeded(v) == NextFile([v EXCEPT !.results.success = @ + 1])

\* one order of a set of paths
RECURSIVE OneOrder(_)
OneOrder(S) ==
    IF S = {} THEN <<>>
    ELSE LET x == CHOOSE y \in S : TRUE IN <<x>> \o OneOrder(S \ {x})

\* the lists glob may return: every order of a small set of matches, one order
\* of a larger set
Listings(S) == IF Cardinality(S) <= MaxExports THEN Orders(S) ELSE {OneOrder(S)}

\* decrypt_vault(engine, pw, del) up to the start of the loop:
\* os.makedirs(self.EXPORT_DIR), outside every try block, then glob
RestoreBegin(pw, del, fails) ==
    LET v == [VmIdle EXCEPT !.op = "restore", !.pw = pw, !.del = del,
                            !.docs = [p \in VaultFiles(fs) |-> fs[p]]]
    IN  IF fails
        THEN vm' = Raise(Faulted(v))
        ELSE IF VaultFiles(fs) = {}
        THEN vm' = Return(v, "VAULT IS EMPTY")
        ELSE \E q \in Listings(VaultFiles(fs)) :
                vm' = [v EXCEPT !.pc = "decrypt", !.queue = q, !.listed = q]

\* a call of decrypt_vault
RestoreCall(F) ==
    \E pw \in Passwords, del \in BOOLEAN, fails \in F :
        /\ CanCall
        /\ Cardinality({p \in DOMAIN fs : p.dir \in {VAULT_DIR, EXPORT_DIR}}) <= MaxExports
        /\ RestoreBegin(pw, del, fails)
        /\ UNCHANGED <<fs, last, phase, sealed, tamper, ui, cc>>

\* status = engine.decrypt_file(encrypted_file, password) and the tests on it
RestoreDecrypt ==
    /\ vm.op = "restore" /\ vm.pc = "decrypt"
    /\ LET r == DecryptFile(fs, Head(vm.queue), vm.pw, NoFault)
           v == [vm EXCEPT !.tried = Append(@, Head(vm.queue))]
       IN  /\ fs' = r.fs
           /\ vm' = IF r.ret = "SUCCESS"
                    THEN IF Exists(r.fs, PlaintextPath(Head(vm.queue)))
                         THEN [v EXCEPT !.pc = "move"]
                         ELSE Failed(v, "Decryption success but file missing")
                    ELSE Failed(v, r.ret)
    /\ UNCHANGED <<last, phase, sealed, tamper, ui, cc>>

\* the collision loop and shutil.move(plaintext_path, target_path)
RestoreMove(F) ==
    /\ vm.op = "restore" /\ vm.pc = "move"
    /\ \E fails \in F :
          IF fails
          THEN vm' = Failed(Faulted(vm), "Crash") /\ fs' = fs
          ELSE /\ fs' = MoveFile(fs, PlaintextPath(Head(vm.queue)),
                                 ExportTarget(fs, PlaintextPath(Head(vm.queue)).name))
               /\ vm' = IF vm.del THEN [vm EXCEPT !.pc = "remove"] ELSE Succeeded(vm)
    /\ UNCHANGED <<last, phase, sealed, tamper, ui, cc>>

\* if delete_encrypted: os.remove(encrypted_file)
RestoreRemove(F) ==
    /\ vm.op = "restore" /\ vm.pc = "remove"
    /\ \E fails \in F :
          IF fails
          THEN vm' = Failed(Faulted(vm), "Crash") /\ fs' = fs
          ELSE vm' = Succeeded(vm) /\ fs' = RemoveFile(fs, Head(vm.queue))
    /\ UNCHANGED <<last, phase, sealed, tamper, ui, cc>>

\* between two calls, one bit of the last body byte of a vault file is flipped
CorruptVault ==
    \E p \in VaultFiles(fs) :
        /\ CanCall
        /\ Intact(fs[p])
        /\ fs' = [fs EXCEPT ![p].bytes[Len(fs[p].bytes)] = Xor(@, 1)]
        /\ vm' = VmIdle
        /\ UNCHANGED <<last, phase, sealed, tamper, ui, cc>>

VaultNext ==
    \/ StoreCall({NoFault})
    \/ StoreReplace({FALSE})
    \/ StoreMove({FALSE})
    \/ StoreCleanup({FALSE})
    \/ RestoreCall({FALSE})
    \/ RestoreDecrypt
    \/ RestoreMove({FALSE})
    \/ RestoreRemove({FALSE})
    \/ CorruptVault

\* the vault manager in an environment whose file-system calls all succeed
VaultSpec == VaultInit /\ [][VaultNext]_vars

VaultFaultNext ==
    \/ StoreCall(StoreFaults)
    \/ StoreReplace(BOOLEAN)
    \/ StoreMove(BOOLEAN)
    \/ StoreCleanup(BOOLEAN)
    \/ RestoreCall(BOOLEAN)
    \/ RestoreDecrypt
    \/ RestoreMove(BOOLEAN)
    \/ RestoreRemove(BOOLEAN)
    \/ CorruptVault

\* the vault manager in an environment whose file-system calls may raise OSError
VaultFaultSpec == VaultInit /\ [][VaultFaultNext]_vars

----------------------------------------------------------------------------
(* Claims about the vault manager *)

ScratchHxc == MkPath(<<"scratch">>, <<"x", ".hxc">>)

\* decrypt_file on file f with password pw succeeds and writes data
DecryptsTo(f, pw, data) ==
    LET r == DecryptFile(WriteFile(<<>>, ScratchHxc, f), ScratchHxc, pw, NoFault)
    IN  r.ret = "SUCCESS" /\ r.fs[r.out] = RawFile(data)

\* the source of encrypt_and_store still holds its bytes, or the vault holds
\* their encryption
StoredDocumentKept ==
    (vm.op = "store" /\ vm.src \in DOMAIN vm.docs)
    => \/ Exists(fs, vm.src) /\ fs[vm.src] = vm.docs[vm.src]
       \/ /\ Exists(fs, VaultDest(AddSuffix(vm.src, ".hxc")))
          /\ DecryptsTo(fs[VaultDest(AddSuffix(vm.src, ".hxc"))], vm.pw, vm.docs[vm.src].bytes)

\* every vault file that decrypt_vault enumerated is still in the vault as it
\* was, or its plaintext is in the export directory
RestoredDocumentsKept ==
    vm.op = "restore"
    => \A p \in DOMAIN vm.docs :
          \/ Exists(fs, p) /\ fs[p] = vm.docs[p]
          \/ \E q \in DOMAIN fs :
                q.dir = EXPORT_DIR /\ fs[q].hdr = <<>> /\ DecryptsTo(vm.docs[p], vm.pw, fs[q].bytes)

\* C9: at every step of encrypt_and_store and of decrypt_vault each document
\* being processed has a complete copy on disk: the source is removed only once
\* its encryption is in the vault, a vault file only once its plaintext is in
\* the export directory.
C9_NeverDataLosing == StoredDocumentKept /\ RestoredDocumentsKept

\* the enumerated vault files whose body was corrupted
CorruptedDocs == {p \in DOMAIN vm.docs : ~Intact(vm.docs[p])}

\* C10: for a vault of N files of which M have a corrupted body, decrypt_vault
\* with the right password returns success = N - M and failed = M with M
\* distinct reasons, and the plaintext of each good file is in the export
\* directory.
C10_BatchPartialFailure ==
    (vm.op = "restore" /\ vm.pc = "done" /\ vm.ret = "stats" /\ vm.pw = ACCESS_PASSWORD)
    => /\ vm.results.success = Cardinality(DOMAIN vm.docs) - Cardinality(CorruptedDocs)
       /\ vm.results.failed = Cardinality(CorruptedDocs)
       /\ Len(vm.results.errors) = Cardinality(CorruptedDocs)
       /\ \A i, j \in DOMAIN vm.results.errors :
             i # j => vm.results.errors[i] # vm.results.errors[j]
       /\ \A p \in DOMAIN vm.docs \ CorruptedDocs :
             \E q \in DOMAIN fs :
                q.dir = EXPORT_DIR /\ fs[q].hdr = <<>>
                    /\ DecryptsTo(vm.docs[p], vm.pw, fs[q].bytes)

\* decrypt_vault returned its stats
ReturnedStats == vm.op = "restore" /\ vm.pc = "done" /\ vm.ret = "stats"

\* C11: decrypt_vault hands every enumerated file to the engine exactly once, in
\* the order of the list, however the earlier files ended; when it returns the
\* stats, success + failed is the number of enumerated files and the errors
\* list has failed entries.
C11_EveryFileAttemptedOnce ==
    vm.op = "restore"
    => /\ IsPrefix(vm.tried, vm.listed)
       /\ \A i, j \in DOMAIN vm.listed : i # j => vm.listed[i] # vm.listed[j]
       /\ ReturnedStats
          => /\ vm.tried = vm.listed
             /\ {vm.listed[i] : i \in DOMAIN vm.listed} = DOMAIN vm.docs
             /\ vm.results.success + vm.results.failed = Len(vm.listed)
             /\ Len(vm.results.errors) = vm.results.failed

C11_Witness ==
    /\ ReturnedStats
    /\ Len(vm.listed) = 2
    /\ vm.results.success = 1
    /\ vm.results.failed = 1
    /\ vm.results.errors[1] = [file |-> vm.listed[1].name, reason |-> "Crash"]

\* every file of the vault directory whose name ends in ".hxc"
AllHxc(fsys) == {p \in DOMAIN fsys : p.dir = VAULT_DIR /\ EndsWith(p, ".hxc")}

\* C12: decrypt_vault returns "VAULT IS EMPTY" exactly when the vault directory
\* holds no .hxc file, and the stats whenever it holds one.
C12_EmptySignalIffNoHxc ==
    [][(VmReady /\ vm'.op = "restore" /\ vm'.pc # "raised")
       => ((vm'.pc = "done" /\ vm'.ret = "VAULT IS EMPTY") <=> AllHxc(fs) = {})]_vars

\* the k-th name of the sequence name.ext, name_1.ext, name_2.ext, ...
NthName(name, k) == IF k = 0 THEN name ELSE Numbered(name, k)

ExportFiles(fsys) == {p \in DOMAIN fsys : p.dir = EXPORT_DIR}

\* C13: the export step moves the plaintext to the first name of the sequence
\* name.ext, name_1.ext, ... that is free in the export directory, and leaves
\* every file already there as it was.
C13_ExportCollision ==
    [][(vm.op = "restore" /\ vm.pc = "move")
       => LET src  == PlaintextPath(Head(vm.queue))
              name == src.name
          IN  /\ \A q \in ExportFiles(fs) : q \in DOMAIN fs' /\ fs'[q] = fs[q]
              /\ \E k \in 0..(MaxExports + 1) :
                    /\ \A j \in 0..(k - 1) : Exists(fs, MkPath(EXPORT_DIR, NthName(name, j)))
                    /\ ~Exists(fs, MkPath(EXPORT_DIR, NthName(name, k)))
                    /\ ExportFiles(fs') = ExportFiles(fs) \cup {MkPath(EXPORT_DIR, NthName(name, k))}
                    /\ fs'[MkPath(EXPORT_DIR, NthName(name, k))] = fs[src]]_vars

C13_Witness ==
    /\ ReturnedStats
    /\ Exists(fs, MkPath(EXPORT_DIR, <<"a">>))
    /\ Exists(fs, MkPath(EXPORT_DIR, <<"a", "_1">>))
    /\ fs[MkPath(EXPORT_DIR, <<"a">>)] = RawFile(SourceData[MkPath(DocsDir, <<"a">>)])
    /\ fs[MkPath(EXPORT_DIR, <<"a", "_1">>)] = RawFile(SourceData[MkPath(DocsDir, <<"a">>)])

StoreSuccess ==
    {"SUCCESS: File Encrypted & Moved to Vault",
     "SUCCESS: Encrypted, but failed to delete original."}

\* encrypt_and_store returned after the engine had produced its file
StoredByEngine == vm.op = "store" /\ vm.pc = "done" /\ vm.enc # VmIdle.enc

\* <vault>/<basename(source)>.hxc
DestOf(src) == MkPath(VAULT_DIR, Append(src.name, ".hxc"))

C15_InVaultExactly ==
    (vm.op = "store" /\ vm.pc = "done" /\ vm.src \in DOMAIN vm.docs)
    => (vm.ret = "ERROR: File is already in the Vault." <=> vm.src.dir = VAULT_DIR)

\* C16: the source is removed only with delete_original set and once its
\* encryption is in the vault; when the removal fails the call returns the
\* failed-to-delete status with the encryption in the vault and the source
\* present; with delete_original unset the source stays as it was.
C16_DeleteOriginal ==
    /\ [](vm.op = "store" /\ vm.src \in DOMAIN vm.docs
          => /\ vm.ret = "SUCCESS: Encrypted, but failed to delete original."
                => /\ vm.del
                   /\ Exists(fs, DestOf(vm.src))
                   /\ DecryptsTo(fs[DestOf(vm.src)], vm.pw, vm.docs[vm.src].bytes)
                   /\ Exists(fs, vm.src) /\ fs[vm.src] = vm.docs[vm.src]
             /\ ~vm.del => (Exists(fs, vm.src) /\ fs[vm.src] = vm.docs[vm.src]))
    /\ [][(vm'.op = "store" /\ Exists(fs, vm'.src) /\ ~Exists(fs', vm'.src))
          => /\ vm.del /\ vm.op = "store" /\ vm.pc = "cleanup"
             /\ Exists(fs, DestOf(vm.src))
             /\ DecryptsTo(fs[DestOf(vm.src)], vm.pw, vm.docs[vm.src].bytes)]_vars

C16_Witness ==
    /\ vm.op = "store" /\ vm.pc = "done"
    /\ vm.ret = "SUCCESS: Encrypted, but failed to delete original."
    /\ Exists(fs, vm.src)
    /\ Exists(fs, DestOf(vm.src))

\* C17: when encrypt_and_store returns a status that is not a success, no
\* encrypted file of the call is left beside the source, the source is as it
\* was, and every vault file that was there before the call is still there.
C17_FailedStoreLeavesNoTrace ==
    (vm.op = "store" /\ vm.pc = "done" /\ vm.ret \notin StoreSuccess
        /\ vm.src \in DOMAIN vm.docs /\ vm.src.dir # VAULT_DIR)
    => /\ ~Exists(fs, AddSuffix(vm.src, ".hxc"))
       /\ Exists(fs, vm.src) /\ fs[vm.src] = vm.docs[vm.src]
       /\ \A p \in DOMAIN vm.docs : Exists(fs, p)

\* C18: no operation of the vault manager lets an exception reach its caller.
C18_NoExceptionEscapes == vm.pc # "raised"

\* the errors decrypt_vault recorded for the vault file p
ErrorsFor(p) == {e \in {vm.results.errors[i] : i \in DOMAIN vm.results.errors} : e.file = p.name}

\* C29: when decrypt_vault returns, every vault file it listed whose plaintext
\* was exported is deleted (delete_encrypted being set), and so is every listed
\* file whose decryption detected corruption.
C29_DeletedWhenExportedOrCorrupted ==
    (vm.op = "restore" /\ vm.pc = "done" /\ vm.ret = "stats")
    => \A i \in DOMAIN vm.listed :
          /\ (vm.del /\ ErrorsFor(vm.listed[i]) = {}) => ~Exists(fs, vm.listed[i])
          /\ (\E e \in ErrorsFor(vm.listed[i]) : e.reason = IntegrityError)
             => ~Exists(fs, vm.listed[i])

----------------------------------------------------------------------------
(* The application: login screen, layout manager, file picker and the       *)
(* background task that reports to the main loop through the ui_queue       *)

\* most files the vault holds when the application starts
MaxVaultFiles == 11

\* the digit keys pressed on the login screen
Digits == {"1", "2", "3", "4"}

\* the string made of the characters typed
RECURSIVE Concat(_)
Concat(t) == IF t = <<>> THEN "" ELSE t[1] \o Concat(Tail(t))

\* mutant: any four digits unlock
PinOKAny(t) == TRUE

\* self.input_text == Config.ACCESS_PASSWORD
PinOK(t) == Concat(t) = ACCESS_PASSWORD

\* LoginScreen.handle on a key press: BACKSPACE or a digit
LoginKey(u, key) ==
    IF key = "BACKSPACE"
    THEN [u EXCEPT !.input_text = SubSeq(@, 1, Len(@) - 1)]
    ELSE IF Len(u.input_text) < 4
    THEN IF Len(u.input_text) = 3
         THEN IF PinOK(Append(u.input_text, key))
              THEN [u EXCEPT !.input_text = Append(@, key), !.state = "MAIN"]
              ELSE [u EXCEPT !.input_text = <<>>]
         ELSE [u EXCEPT !.input_text = Append(@, key)]
    ELSE u

\* App.lock_system
LockSystem(u) ==
    [u EXCEPT !.state = "LOGIN", !.input_text = <<>>, !.important = "SYSTEM LOCKED"]

\* the action buttons of the three tabs (THEME, which only repaints, and EXIT,
\* which ends the program, are left out)
Actions ==
    {"AES-256", "RSA-4096", "CHACHA20", "RESTORE", "VERIFY", "CHANGE PASSWORD", "LOCK SYSTEM"}

\* CustomFilePicker.open
PickerOpen(u, batch_mode) ==
    [u EXCEPT !.active = TRUE, !.batch = batch_mode, !.selection_result = <<>>]

\* mutant: RSA-4096 opens the picker as AES-256 does
RsaActionPicks(u) == PickerOpen([u EXCEPT !.pending_task = "RSA-4096"], FALSE)

\* elif text == 'RSA-4096': self.log.set_important("ALGORITHM NOT SUPPORTED")
RsaAction(u) == [u EXCEPT !.important = "ALGORITHM NOT SUPPORTED"]

\* LayoutManager.trigger_action(text, app)
TriggerAction(u, text) ==
    IF u.loading THEN u
    ELSE IF text = "LOCK SYSTEM" THEN LockSystem(u)
    ELSE IF text = "CHANGE PASSWORD" THEN [u EXCEPT !.important = "FEATURE UNDER MAINTENANCE"]
    ELSE IF text \in {"AES-256", "CHACHA20"}
    THEN PickerOpen([u EXCEPT !.pending_task = text], FALSE)
    ELSE IF text = "RSA-4096" THEN RsaAction(u)
    ELSE IF text \in {"RESTORE", "VERIFY"}
    THEN PickerOpen([u EXCEPT !.pending_task = text], TRUE)
    ELSE u

\* the files the picker lists for the user: names that begin with a dot are
\* not shown
PickFiles(fsys) == {q \in StoreTargets \cap DOMAIN fsys : ~Hidden(q.name)}

\* the vault directory, which a batch picker returns
VaultRoot == MkPath(VAULT_DIR, <<>>)

\* a message on the ui_queue: its kind, and its data as a text or as the
\* fraction num / den
Msg(kind, text, num, den) == [kind |-> kind, text |-> text, prog |-> Frac(num, den)]

\* the first statement of the handler _thread_task dispatches to
HandlerLog(action) ==
    IF action = "RESTORE" THEN Msg("LOG", "UNLOCKING VAULT...", 0, 1)
    ELSE IF action = "VERIFY" THEN Msg("LOG", "SCANNING VAULT INTEGRITY...", 0, 1)
    ELSE Msg("LOG", "ENCRYPTING", 0, 1)

\* mutant: execute_task leaves loading as it was
ExecuteTaskNotLoading(u, action, filepath) ==
    [u EXCEPT !.load_prog = Frac(0, 1), !.sent = <<>>, !.got = <<>>,
              !.task = [TaskNone EXCEPT !.pc = "call", !.action = action, !.path = filepath,
                                        !.todo = <<Msg("PROGRESS", "", 1, 10), HandlerLog(action)>>]]

\* LayoutManager.execute_task: the thread starts at the top of _thread_task,
\* with ("PROGRESS", 0.1) and the handler's first message to put
ExecuteTask(u, action, filepath) ==
    [u EXCEPT !.loading = TRUE, !.load_prog = Frac(0, 1), !.sent = <<>>, !.got = <<>>,
              !.task = [TaskNone EXCEPT !.pc = "call", !.action = action, !.path = filepath,
                                        !.todo = <<Msg("PROGRESS", "", 1, 10), HandlerLog(action)>>]]

\* one message taken by _process_queue
ApplyMsg(u, m) ==
    IF m.kind = "IMPORTANT" THEN [u EXCEPT !.important = m.text]
    ELSE IF m.kind = "PROGRESS" THEN [u EXCEPT !.load_prog = m.prog]
    ELSE IF m.kind = "FINISH" THEN [u EXCEPT !.loading = FALSE]
    ELSE u

\* mutant: one message is taken per call
ProcessQueueOne(u) ==
    IF u.queue = <<>> THEN u
    ELSE [ApplyMsg(u, Head(u.queue)) EXCEPT !.queue = Tail(u.queue),
                                            !.got = Append(u.got, Head(u.queue))]

\* the first k messages of the queue applied, in the order they were put
RECURSIVE ApplyQueue(_, _)
ApplyQueue(u, k) == IF k = 0 THEN u ELSE ApplyMsg(ApplyQueue(u, k - 1), u.queue[k])

\* LayoutManager._process_queue: get_nowait until the queue is empty
ProcessQueue(u) ==
    [ApplyQueue(u, Len(u.queue)) EXCEPT !.queue = <<>>, !.got = u.got \o u.queue]

\* LayoutManager.update, the file system being fsys
Update(u, fsys) ==
    LET w == ProcessQueue(u)
    IN  IF w.active THEN w
        ELSE IF w.selection_result # <<>> /\ w.pending_task # ""
        THEN LET cleared == [w EXCEPT !.selection_result = <<>>, !.pending_task = ""]
                 filepath == w.selection_result[1]
             IN  IF filepath = VaultRoot \/ Exists(fsys, filepath)
                 THEN ExecuteTask(cleared, w.pending_task, filepath)
                 ELSE [cleared EXCEPT !.important = "ERROR: FILE MISSING"]
        ELSE w

\* the vault the application starts with when it is full: MaxVaultFiles
\* encrypted documents, the body of the first one damaged
FullVault ==
    [q \in {MkPath(VAULT_DIR, <<ToString(k), ".hxc">>) : k \in 1..MaxVaultFiles} |->
        IF q.name[1] = "1"
        THEN [EncFile(<<7>>, ACCESS_PASSWORD, ALGO_AES, Draw(1)) EXCEPT !.bytes[BODY_IV_SIZE + 1] = Xor(@, 1)]
        ELSE EncFile(<<7>>, ACCESS_PASSWORD, ALGO_AES, Draw(1))]

\* the application starts on the login screen, the user having two documents
\* and an empty vault, or a full vault
UiInit ==
    /\ fs \in {[q \in {MkPath(DocsDir, <<"a">>), MkPath(DocsDir, <<"a", ".hxc">>)} |->
                   RawFile(SourceData[q])], FullVault}
    /\ last = NoCall
    /\ phase = 0
    /\ sealed = NotSealed
    /\ tamper = "none"
    /\ vm = VmIdle
    /\ ui = UiOff
    /\ cc = CcOff

\* App.run in the LOGIN state: a key press goes to the login screen
KeyLogin ==
    \E key \in Digits \cup {"BACKSPACE"} :
        /\ ui.state = "LOGIN"
        /\ ui' = LoginKey(ui, key)
        /\ UNCHANGED <<fs, last, phase, sealed, tamper, vm, cc>>

\* App.run in the MAIN state, LayoutManager.handle_input: the picker being
\* closed and no task loading, a click or key triggers an action button
ClickAction ==
    \E text \in Actions :
        /\ ui.state = "MAIN"
        /\ ~ui.active
        /\ ~ui.loading
        /\ ui' = TriggerAction(ui, text)
        /\ UNCHANGED <<fs, last, phase, sealed, tamper, vm, cc>>

\* CustomFilePicker.handle: the user selects a file (navigate_or_select), or
\* confirms the directory of a batch picker (do_action)
PickerSelect ==
    /\ ui.state = "MAIN"
    /\ ui.active
    /\ \E q \in (IF ui.batch THEN {VaultRoot} ELSE PickFiles(fs)) :
          ui' = [ui EXCEPT !.selection_result = <<q>>, !.active = FALSE]
    /\ UNCHANGED <<fs, last, phase, sealed, tamper, vm, cc>>

\* CustomFilePicker.handle: ESC or the cancel button
PickerCancel ==
    /\ ui.state = "MAIN"
    /\ ui.active
    /\ ui' = [ui EXCEPT !.active = FALSE]
    /\ UNCHANGED <<fs, last, phase, sealed, tamper, vm, cc>>

\* App.run in the MAIN state: self.layout.update()
Tick ==
    /\ ui.state = "MAIN"
    /\ ui' = Update(ui, fs)
    /\ UNCHANGED <<fs, last, phase, sealed, tamper, vm, cc>>

TaskRunning == ui.task.pc \notin {"none", "ended"}

\* self.ui_queue.put of the next message of the thread's statement block
TaskPut ==
    /\ TaskRunning
    /\ ui.task.todo # <<>>
    /\ ui' = [ui EXCEPT !.queue = Append(@, Head(ui.task.todo)),
                        !.sent = Append(@, Head(ui.task.todo)),
                        !.task.todo = Tail(@)]
    /\ UNCHANGED <<fs, last, phase, sealed, tamper, vm, cc>>

\* _handle_encryption: self.vault.encrypt_and_store(target_path, engine,
\* Config.ACCESS_PASSWORD, algo_id, delete_original=True) is called
TaskCallStore ==
    \E d \in VaultDraws :
        /\ ui.task.pc = "call" /\ ui.task.todo = <<>>
        /\ ui.task.action \in {"AES-256", "CHACHA20"}
        /\ StoreBegin(ui.task.path,
                      IF ui.task.action = "CHACHA20" THEN ALGO_CHACHA ELSE ALGO_AES,
                      TRUE, d, NoFault)
        /\ ui' = [ui EXCEPT !.task.pc = "wait"]
        /\ UNCHANGED <<last, phase, sealed, tamper, cc>>

\* _handle_restore: self.vault.decrypt_vault(engine, Config.ACCESS_PASSWORD,
\* delete_encrypted=True) is called; os.makedirs may raise in it
TaskCallRestore ==
    \E fails \in BOOLEAN :
        /\ ui.task.pc = "call" /\ ui.task.todo = <<>>
        /\ ui.task.action = "RESTORE"
        /\ RestoreBegin(ACCESS_PASSWORD, TRUE, fails)
        /\ ui' = [ui EXCEPT !.task.pc = "wait"]
        /\ UNCHANGED <<fs, last, phase, sealed, tamper, cc>>

\* what the handler puts once the vault manager has returned ret and results
ResultMsgs(action, ret, results) ==
    IF action = "RESTORE"
    THEN IF ret = "stats"
         THEN <<Msg("LOG", "SUCCESS | FAIL", 0, 1)>> \o [i \in DOMAIN results.errors |-> Msg("LOG", "ERR", 0, 1)]
                  \o <<Msg("IMPORTANT", "VAULT RESTORE COMPLETE", 0, 1)>>
         ELSE <<Msg("IMPORTANT", ret, 0, 1)>>
    ELSE IF ret \in {"SUCCESS: File Encrypted & Moved to Vault",
                     "SUCCESS: Encrypted, but failed to delete original."}
    THEN <<Msg("IMPORTANT", "ENCRYPTION SUCCESSFUL", 0, 1), Msg("LOG", "FILE MOVED TO VAULT", 0, 1)>>
    ELSE <<Msg("IMPORTANT", "FAILED", 0, 1)>>

\* the vault manager's call has ended: the handler puts its messages and
\* returns, or the exception reaches "except Exception" of _thread_task
TaskResult ==
    /\ ui.task.pc = "wait"
    /\ vm.pc \in {"done", "raised"}
    /\ ui' = IF vm.pc = "raised"
             THEN [ui EXCEPT !.task.pc = "finally",
                             !.task.todo = <<Msg("IMPORTANT", "CRITICAL ERROR", 0, 1)>>]
             ELSE [ui EXCEPT !.task.pc = "return",
                             !.task.todo = ResultMsgs(ui.task.action, vm.ret, vm.results)]
    /\ UNCHANGED <<fs, last, phase, sealed, tamper, vm, cc>>

\* _handle_verify: glob, and the empty-vault return
TaskGlob ==
    /\ ui.task.pc = "call" /\ ui.task.todo = <<>>
    /\ ui.task.action = "VERIFY"
    /\ IF VaultFiles(fs) = {}
       THEN ui' = [ui EXCEPT !.task.pc = "return", !.task.todo = <<Msg("IMPORTANT", "VAULT IS EMPTY", 0, 1)>>]
       ELSE \E q \in Listings(VaultFiles(fs)) :
               ui' = [ui EXCEPT !.task.pc = "verify", !.task.files = q]
    /\ UNCHANGED <<fs, last, phase, sealed, tamper, vm, cc>>

\* _handle_verify: one iteration of the loop over vault_files, and after the
\* last one the summary
TaskVerifyFile ==
    /\ ui.task.pc = "verify" /\ ui.task.todo = <<>>
    /\ LET t      == ui.task
           total  == Len(t.files)
           status == VerifyIntegrity(fs, t.files[t.i + 1], NoFault).ret
           issues == IF status # "INTEGRITY OK" THEN t.issues + 1 ELSE t.issues
           msgs   == <<Msg("PROGRESS", "", t.i + 1, total)>>
                        \o (IF status # "INTEGRITY OK" THEN <<Msg("LOG", "FAIL", 0, 1)>> ELSE <<>>)
       IN  ui' = IF t.i + 1 = total
                 THEN [ui EXCEPT !.task.pc = "return", !.task.i = total, !.task.issues = issues,
                                 !.task.todo = Append(msgs, Msg("IMPORTANT",
                                                                IF issues = 0
                                                                THEN "ALL FILES VERIFIED OK"
                                                                ELSE "FOUND CORRUPTED FILES", 0, 1))]
                 ELSE [ui EXCEPT !.task.i = t.i + 1, !.task.issues = issues, !.task.todo = msgs]
    /\ UNCHANGED <<fs, last, phase, sealed, tamper, vm, cc>>

\* the handler has returned: self.ui_queue.put(("PROGRESS", 1.0))
TaskReturn ==
    /\ ui.task.pc = "return" /\ ui.task.todo = <<>>
    /\ ui' = [ui EXCEPT !.task.pc = "finally", !.task.todo = <<Msg("PROGRESS", "", 1, 1)>>]
    /\ UNCHANGED <<fs, last, phase, sealed, tamper, vm, cc>>

\* mutant: the thread ends without the marker
FinishMsgsNone == <<>>

\* finally: self.ui_queue.put(("FINISH", None))
FinishMsgs == <<Msg("FINISH", "", 0, 1)>>

TaskFinally ==
    /\ ui.task.pc = "finally" /\ ui.task.todo = <<>>
    /\ ui' = [ui EXCEPT !.task.pc = "ended",
                        !.queue = @ \o FinishMsgs, !.sent = @ \o FinishMsgs]
    /\ UNCHANGED <<fs, last, phase, sealed, tamper, vm, cc>>

\* the steps of the background thread, the vault manager's included
TaskStep ==
    \/ TaskPut
    \/ TaskCallStore
    \/ TaskCallRestore
    \/ TaskGlob
    \/ TaskVerifyFile
    \/ TaskResult
    \/ TaskReturn
    \/ TaskFinally
    \/ StoreReplace({FALSE})
    \/ StoreMove({FALSE})
    \/ StoreCleanup({FALSE})
    \/ RestoreDecrypt
    \/ RestoreMove({FALSE})
    \/ RestoreRemove({FALSE})

UiNext ==
    \/ KeyLogin
    \/ ClickAction
    \/ PickerSelect
    \/ PickerCancel
    \/ Tick
    \/ TaskStep

UiSpec == UiInit /\ [][UiNext]_vars

\* the main loop keeps calling update() and the thread keeps being scheduled
UiLiveSpec == UiSpec /\ WF_vars(Tick) /\ WF_vars(TaskStep)

----------------------------------------------------------------------------
(* Claims about the application *)

\* the positions in the messages the task has put that hold a message of a kind
SentOf(kind) == {k \in DOMAIN ui.sent : ui.sent[k].kind = kind}

\* a <= b for fractions with positive denominators
FracLeq(a, b) == a.num * b.den <= b.num * a.den

\* C21: a task puts FINISH on the queue exactly once, whether its handler
\* returned or raised, and puts nothing after it: FINISH is the last message
\* of every ended task, and no running task has put one.
C21_ExactlyOneFinish ==
    /\ Cardinality(SentOf("FINISH")) <= 1
    /\ ui.task.pc = "ended"
       => (SentOf("FINISH") = {Len(ui.sent)} /\ Len(ui.sent) > 0)
    /\ SentOf("FINISH") # {} => ui.task.pc = "ended"

C21_Witness ==
    /\ ui.task.pc = "ended"
    /\ vm.pc = "raised"
    /\ \E k \in SentOf("IMPORTANT") : ui.sent[k].text = "CRITICAL ERROR"
    /\ SentOf("FINISH") = {Len(ui.sent)}

\* C22: the PROGRESS values a task puts are between 0.0 and 1.0 and never
\* decrease, whatever the action and the number of vault files.
C22_ProgressMonotone ==
    \A j, k \in SentOf("PROGRESS") :
        /\ FracLeq(Frac(0, 1), ui.sent[k].prog) /\ FracLeq(ui.sent[k].prog, Frac(1, 1))
        /\ j < k => FracLeq(ui.sent[j].prog, ui.sent[k].prog)

\* the number of vault files a batch task went through
BatchTotal == IF ui.task.action = "VERIFY" THEN Len(ui.task.files) ELSE Len(vm.listed)

\* C23: a batch task (RESTORE, VERIFY) over total vault files has put, when it
\* ends, a PROGRESS message of value i/total for every file i of 1..total.
C23_BatchProgressPerFile ==
    (ui.task.pc = "ended" /\ ui.task.action \in {"RESTORE", "VERIFY"} /\ vm.pc # "raised")
    => \A i \in 1..BatchTotal :
          \E k \in SentOf("PROGRESS") : ui.sent[k].prog.num * BatchTotal = i * ui.sent[k].prog.den

\* C24: every task that execute_task started ends with loading reset to False
\* (the main loop calling update() and the thread being scheduled); update()
\* leaves the queue empty; the messages are applied in the order they were put
\* and none is lost, so all of them are applied when FINISH resets loading.
C24_TaskEndsAndQueueDrained ==
    /\ [](ui.loading => <>(~ui.loading))
    /\ [](ui.got \o ui.queue = ui.sent)
    /\ []((ui.task.pc = "ended" /\ ~ui.loading)
            => (ui.got = ui.sent /\ SentOf("FINISH") = {Len(ui.got)}))
    /\ [][(ui.state = "MAIN" /\ ui' = Update(ui, fs)) => ui'.queue = <<>>]_vars

C24_Witness ==
    /\ ui.task.pc = "ended"
    /\ ~ui.loading
    /\ ui.task.action = "VERIFY"
    /\ Len(ui.got) > MaxVaultFiles
    /\ ui.got = ui.sent

\* C25: a click on RSA-4096 sets the banner to ALGORITHM NOT SUPPORTED and
\* does nothing else: the picker stays closed, no task is pending or started,
\* the queue and the files are as before.
C25_RsaNotSupported ==
    [][(ui.state = "MAIN" /\ ~ui.active /\ ~ui.loading /\ ui' = TriggerAction(ui, "RSA-4096"))
       => (/\ ui' = [ui EXCEPT !.important = "ALGORITHM NOT SUPPORTED"]
           /\ ~ui'.active
           /\ ~ui'.loading
           /\ fs' = fs
           /\ vm' = vm)]_vars

C25_Witness ==
    /\ ui.state = "MAIN"
    /\ ui.important = "ALGORITHM NOT SUPPORTED"
    /\ ~ui.active /\ ~ui.loading
    /\ ui.pending_task = ""
    /\ ui.task.pc = "ended"

\* C26: the application leaves LOGIN only by the key that makes the input the
\* four characters of the access password; in LOGIN no task runs or starts and
\* nothing but the login input changes (no layout field, no file); a fourth
\* digit that does not complete the password clears the input and stays in
\* LOGIN; MAIN is left for LOGIN only by LOCK SYSTEM, with the input cleared.
C26_PinGate ==
    /\ [](ui.state = "LOGIN" => (~ui.loading /\ ~TaskRunning /\ Len(ui.input_text) < 4))
    /\ [][(ui.state = "LOGIN" /\ ui'.state = "MAIN")
          => (/\ Len(ui'.input_text) = 4
              /\ Concat(ui'.input_text) = ACCESS_PASSWORD
              /\ SubSeq(ui'.input_text, 1, 3) = ui.input_text)]_vars
    /\ [][ui.state = "LOGIN"
          => (/\ fs' = fs /\ vm' = vm
              /\ ui' = [ui EXCEPT !.input_text = ui'.input_text, !.state = ui'.state])]_vars
    /\ [][(ui.state = "LOGIN" /\ Len(ui.input_text) = 3 /\ ui'.state = "LOGIN"
              /\ ui'.input_text \notin {ui.input_text, SubSeq(ui.input_text, 1, 2)})
          => ui'.input_text = <<>>]_vars
    /\ [][(ui.state = "MAIN" /\ ui'.state = "LOGIN")
          => (/\ ui'.input_text = <<>>
              /\ ui' = LockSystem(ui)
              /\ fs' = fs /\ vm' = vm)]_vars

C26_Witness ==
    /\ ui.state = "MAIN"
    /\ ui.important = "SYSTEM LOCKED"
    /\ Concat(ui.input_text) = ACCESS_PASSWORD

----------------------------------------------------------------------------
(* Two callers of encrypt_and_store at once, each on its own source path,   *)
(* their file-system calls interleaved                                      *)

Callers == {1, 2}

\* the sources of the two callers: caller 1 stores docs/a, caller 2 a file of
\* another directory with the same name, or another file of docs
CcSources == {<<MkPath(DocsDir, <<"a">>), WorkFile>>,
              <<MkPath(DocsDir, <<"a">>), MkPath(DocsDir, <<"b">>)>>}

\* both callers are about to call encrypt_and_store; the vault is empty or
\* holds a file named a.hxc
ConcInit ==
    /\ \E srcs \in CcSources, old \in BOOLEAN :
          fs = [q \in {srcs[1], srcs[2]}
                          \cup (IF old THEN {MkPath(VAULT_DIR, <<"a", ".hxc">>)} ELSE {}) |->
                   IF q.dir = VAULT_DIR THEN EncFile(<<9>>, ACCESS_PASSWORD, ALGO_AES, Draw(1))
                   ELSE IF q = srcs[1] THEN RawFile(<<7>>) ELSE RawFile(<<11>>)]
    /\ cc \in {c \in [Callers -> [pc : {"start"}, src : DOMAIN fs, algo : {ALGO_AES, ALGO_CHACHA},
                                  del : BOOLEAN, enc : {WorkFile}, ret : {""}]] :
                  /\ c[1].src = MkPath(DocsDir, <<"a">>)
                  /\ c[2].src \notin {c[1].src, MkPath(VAULT_DIR, <<"a", ".hxc">>)}}
    /\ last = NoCall
    /\ phase = 0
    /\ sealed = NotSealed
    /\ tamper = "none"
    /\ vm = VmIdle
    /\ ui = UiOff

CcDone(c, status) == [c EXCEPT !.pc = "done", !.ret = status]

\* encrypt_and_store of caller i: the validation and engine.encrypt_file
CcEncrypt(i) ==
    /\ cc[i].pc = "start"
    /\ LET c == cc[i]
           r == EncryptFile(fs, c.src, ACCESS_PASSWORD, c.algo, Draw(i), NoFault)
       IN  IF ~Exists(fs, c.src)
           THEN cc' = [cc EXCEPT ![i] = CcDone(c, "ERROR: File does not exist.")] /\ fs' = fs
           ELSE IF InVault(c.src)
           THEN cc' = [cc EXCEPT ![i] = CcDone(c, "ERROR: File is already in the Vault.")] /\ fs' = fs
           ELSE IF r.ret # "new_path"
           THEN cc' = [cc EXCEPT ![i] = CcDone(c, r.ret)] /\ fs' = r.fs
           ELSE cc' = [cc EXCEPT ![i] = [c EXCEPT !.pc = "exists", !.enc = r.out]] /\ fs' = r.fs
    /\ UNCHANGED <<last, phase, sealed, tamper, vm, ui>>

\* if os.path.exists(dest_path):
CcExists(i) ==
    /\ cc[i].pc = "exists"
    /\ cc' = [cc EXCEPT ![i].pc = IF Exists(fs, VaultDest(cc[i].enc)) THEN "remove" ELSE "move"]
    /\ UNCHANGED <<fs, last, phase, sealed, tamper, vm, ui>>

\* os.remove(dest_path): FileNotFoundError when the file is no longer there,
\* caught by "except Exception"
CcRemove(i) ==
    /\ cc[i].pc = "remove"
    /\ IF Exists(fs, VaultDest(cc[i].enc))
       THEN cc' = [cc EXCEPT ![i].pc = "move"] /\ fs' = RemoveFile(fs, VaultDest(cc[i].enc))
       ELSE cc' = [cc EXCEPT ![i] = CcDone(cc[i], "VAULT ERROR")] /\ fs' = fs
    /\ UNCHANGED <<last, phase, sealed, tamper, vm, ui>>

\* shutil.move(encrypted_path, dest_path)
CcMove(i) ==
    /\ cc[i].pc = "move"
    /\ fs' = MoveFile(fs, cc[i].enc, VaultDest(cc[i].enc))
    /\ cc' = [cc EXCEPT ![i] = IF cc[i].del THEN [cc[i] EXCEPT !.pc = "cleanup"]
                               ELSE CcDone(cc[i], "SUCCESS: File Encrypted & Moved to Vault")]
    /\ UNCHANGED <<last, phase, sealed, tamper, vm, ui>>

\* if delete_original: os.remove(original_path)
CcCleanup(i) ==
    /\ cc[i].pc = "cleanup"
    /\ fs' = RemoveFile(fs, cc[i].src)
    /\ cc' = [cc EXCEPT ![i] = CcDone(cc[i], "SUCCESS: File Encrypted & Moved to Vault")]
    /\ UNCHANGED <<last, phase, sealed, tamper, vm, ui>>

ConcNext ==
    \/ \E i \in Callers : CcEncrypt(i)
    \/ \E i \in Callers : CcExists(i)
    \/ \E i \in Callers : CcRemove(i)
    \/ \E i \in Callers : CcMove(i)
    \/ \E i \in Callers : CcCleanup(i)

ConcSpec == ConcInit /\ [][ConcNext]_vars

\* C27: two operations running at once on different paths do not interfere:
\* under every interleaving each call of encrypt_and_store ends as it ends
\* when it runs alone on these sources: it returns the success message, leaves
\* no encrypted file beside its source, and has deleted the source when
\* delete_original was set; when both have ended each one's vault path holds a
\* file.
C27_NoInterference ==
    /\ \A i \in Callers :
          cc[i].pc = "done"
          => (/\ cc[i].ret = "SUCCESS: File Encrypted & Moved to Vault"
              /\ ~Exists(fs, cc[i].enc)
              /\ cc[i].del => ~Exists(fs, cc[i].src))
    /\ (\A i \in Callers : cc[i].pc = "done")
       => \A i \in Callers : Exists(fs, VaultDest(cc[i].enc))

----------------------------------------------------------------------------
(* HexHeader.pack and HexHeader.unpack, byte for byte *)

\* struct's 's' format of width n: the bytes cut to n, or padded with zeros
FixS(b, n) == [i \in 1..n |-> IF i <= Len(b) THEN b[i] ELSE 0]

\* mutant: the algorithm byte is written before the version byte
PackBytesSwapped(salt, iv, algo_id, encrypted_dek, body_checksum) ==
    [ok    |-> algo_id \in 0..255,
     bytes |-> MAGIC \o <<algo_id, VERSION>> \o FixS(salt, 16) \o FixS(iv, 12)
                  \o encrypted_dek \o FixS(body_checksum, 32)]

\* HexHeader.pack: struct.pack('<4sBB16s12s{len(encrypted_dek)}s32s', ...); ok
\* is FALSE when struct.error is raised (format 'B' outside 0..255)
PackBytes(salt, iv, algo_id, encrypted_dek, body_checksum) ==
    [ok    |-> algo_id \in 0..255,
     bytes |-> MAGIC \o <<VERSION, algo_id>> \o FixS(salt, 16) \o FixS(iv, 12)
                  \o encrypted_dek \o FixS(body_checksum, 32)]

\* HexHeader.unpack: the ValueError it raises, or "ok" and the fields of the
\* first 114 bytes
UnpackBytes(file_bytes) ==
    IF Len(file_bytes) < HEADER_SIZE
    THEN [status |-> "INVALID FILE: Header truncated or insufficient data."]
    ELSE IF SubSeq(file_bytes, 1, 4) # MAGIC
    THEN [status |-> "INVALID FILE: Missing HexCore signature."]
    ELSE [status |-> "ok", algo_id |-> file_bytes[6], salt |-> SubSeq(file_bytes, 7, 22),
          iv |-> SubSeq(file_bytes, 23, 34), encrypted_dek |-> SubSeq(file_bytes, 35, 82),
          stored_checksum |-> SubSeq(file_bytes, 83, 114), body_start |-> HEADER_SIZE]

\* header.pack(algo_id, encrypted_dek, body_checksum) on a fresh header, for
\* algorithm ids in and out of a byte and fields of the right and wrong lengths
HeaderPack ==
    \E algo \in {-1, 0, 1, 255, 256}, n \in {47, 48, 49}, m \in {31, 32, 33},
       b \in {0, 9}, r \in 1..NumDraws :
        /\ last.op # "pack"
        /\ LET salt == [i \in 1..16 |-> r]
               iv   == [i \in 1..12 |-> r + 1]
               dek  == [i \in 1..n |-> IF i = n THEN b ELSE 5]
               sum  == [i \in 1..m |-> IF i = 1 THEN b ELSE 6]
               hdr  == PackBytes(salt, iv, algo, dek, sum)
           IN  last' = [op |-> "pack", algo_id |-> algo, salt |-> salt, iv |-> iv,
                        encrypted_dek |-> dek, body_checksum |-> sum,
                        ok |-> hdr.ok, bytes |-> IF hdr.ok THEN hdr.bytes ELSE <<>>]
        /\ UNCHANGED <<fs, phase, sealed, tamper, vm, ui, cc>>

\* HexHeader.unpack on the bytes that pack returned
HeaderUnpack ==
    /\ last.op = "pack"
    /\ last.ok
    /\ last' = [op |-> "unpack", packed |-> last, info |-> UnpackBytes(last.bytes)]
    /\ UNCHANGED <<fs, phase, sealed, tamper, vm, ui, cc>>

HeaderNext == HeaderPack \/ HeaderUnpack

HeaderSpec == Init /\ [][HeaderNext]_vars

\* C31: pack fails exactly when encrypted_dek is not 48 bytes long, and every
\* header it returns has 114 bytes.
C31_PackFailsOnWrongDekLength ==
    last.op = "pack"
    => (/\ last.ok <=> Len(last.encrypted_dek) = 48
        /\ last.ok => Len(last.bytes) = HEADER_SIZE)

\* C32: for every algo_id in 0..255, every 48-byte encrypted_dek and every
\* 32-byte checksum, unpack of the packed header returns the same algo_id,
\* the header's salt and iv, the same encrypted_dek and checksum, and
\* body_start = 114.
C32_HeaderRoundTrip ==
    (last.op = "unpack" /\ Len(last.packed.encrypted_dek) = 48
        /\ Len(last.packed.body_checksum) = 32)
    => (/\ last.info.status = "ok"
        /\ last.info.algo_id = last.packed.algo_id
        /\ last.info.salt = last.packed.salt
        /\ last.info.iv = last.packed.iv
        /\ last.info.encrypted_dek = last.packed.encrypted_dek
        /\ last.info.stored_checksum = last.packed.body_checksum
        /\ last.info.body_start = 114)

C32_Witness ==
    /\ last.op = "unpack"
    /\ Len(last.packed.encrypted_dek) = 48 /\ Len(last.packed.body_checksum) = 32
    /\ last.packed.algo_id = 255
    /\ last.info.status = "ok"
    /\ last.info.algo_id = 255
    /\ last.info.encrypted_dek[48] = 9

----------------------------------------------------------------------------
(* Further claims about the engine *)

\* C33: whenever decrypt_file returns SUCCESS on a file obtained from an
\* encrypt_file output by any modification (of the version, algo_id, salt, iv,
\* encrypted_dek or checksum field, or of the body), the plaintext it wrote
\* equals the plaintext originally encrypted.
C33_SuccessMeansOriginalPlaintext ==
    (last.op = "decrypt" /\ last.path = WorkHxc /\ sealed.ok /\ last.ret = "SUCCESS")
    => (Exists(fs, last.out) /\ fs[last.out] = RawFile(sealed.data))

\* C37: on every outcome of decrypt_file other than SUCCESS (authentication
\* error, integrity mismatch, I/O error) a file that was at the output path
\* before the call still exists there with its prior content.
C37_FailedDecryptKeepsOutput ==
    [][(phase # 3 /\ phase' = 3 /\ last'.op = "decrypt" /\ last'.ret # "SUCCESS"
            /\ Exists(fs, last'.out))
       => (Exists(fs', last'.out) /\ fs'[last'.out] = fs[last'.out])]_vars

----------------------------------------------------------------------------
(* Further claims about the vault manager *)

\* when decrypt_vault began, the vault held the file that a successful
\* encrypt_and_store of document p leaves there. docs holds the files glob
\* listed as they were; a file glob does not list is never touched by the
\* call, so it is in the file system as it was
StoredWhenBegan(p) ==
    \/ /\ DestOf(p) \in DOMAIN vm.docs
       /\ DecryptsTo(vm.docs[DestOf(p)], ACCESS_PASSWORD, SourceData[p])
    \/ /\ Hidden(DestOf(p).name)
       /\ Exists(fs, DestOf(p))
       /\ DecryptsTo(fs[DestOf(p)], ACCESS_PASSWORD, SourceData[p])

\* decrypt_vault has returned, called with the password of the stores on a
\* vault none of whose files was damaged
RestoredVault ==
    /\ vm.op = "restore" /\ vm.pc = "done" /\ vm.pw = ACCESS_PASSWORD
    /\ CorruptedDocs = {}

\* the export directory holds a file with the content of document p
InExport(p) ==
    \E q \in DOMAIN fs : q.dir = EXPORT_DIR /\ fs[q] = RawFile(SourceData[p])

\* C34: after successful encrypt_and_store calls with delete_original=True on
\* distinct source files, a decrypt_vault with the same password leaves the
\* content of every one of them in the export directory: a source file that
\* is gone from its place, and whose encryption was in the vault when
\* decrypt_vault began, has its content in the export directory when
\* decrypt_vault returns.
C34_NoDocumentLost ==
    RestoredVault
    => \A p \in DOMAIN SourceData :
          (~Exists(fs, p) /\ StoredWhenBegan(p)) => InExport(p)

\* C36: when decrypt_vault returns, every plaintext file that decrypt_file
\* wrote into the vault during the batch has been moved to the export
\* directory or deleted, also when the move to the export directory fails.
C36_NoPlaintextLeftInVault ==
    (vm.op = "restore" /\ vm.pc = "done" /\ vm.ret = "stats")
    => \A i \in DOMAIN vm.tried :
          Exists(fs, PlaintextPath(vm.tried[i]))
          => (/\ PlaintextPath(vm.tried[i]) \in DOMAIN vm.docs
              /\ fs[PlaintextPath(vm.tried[i])] = vm.docs[PlaintextPath(vm.tried[i])])

\* C38: while decrypt_vault processes one vault file, every other file of the
\* vault (another enumerated entry, or a file that does not end in ".hxc")
\* stays as it is; only the entry itself and the plaintext written for it
\* change.
C38_OtherVaultFilesUntouched ==
    [][(vm.op = "restore" /\ vm.pc \in {"decrypt", "move", "remove"})
       => \A p \in DOMAIN fs :
             (/\ p.dir = VAULT_DIR
              /\ p # Head(vm.queue)
              /\ (p \in DOMAIN vm.docs \/ p # PlaintextPath(Head(vm.queue))))
             => (Exists(fs', p) /\ fs'[p] = fs[p])]_vars

\* C39: after encrypt_and_store(f, pw, algo) has succeeded on a source file f
\* outside the vault and decrypt_vault has run with the same password on an
\* empty export directory, the export directory holds a file named
\* basename(f) with f's original content, and f is counted in success.
C39_VaultRoundTrip ==
    \A p \in DOMAIN SourceData :
        (/\ vm.op = "restore" /\ vm.pc = "done" /\ vm.pw = ACCESS_PASSWORD
         /\ StoredWhenBegan(p)
         /\ Cardinality(ExportFiles(fs)) = vm.results.success)
        => (/\ vm.ret = "stats"
            /\ Exists(fs, MkPath(EXPORT_DIR, p.name))
            /\ fs[MkPath(EXPORT_DIR, p.name)] = RawFile(SourceData[p])
            /\ ErrorsFor(DestOf(p)) = {}
            /\ vm.results.success >= 1)

\* C40: when decrypt_vault returns, an enumerated file is gone from the vault
\* only if delete_encrypted was set and its plaintext is in the export
\* directory; with delete_encrypted=False, and for every file counted as
\* failed, the encrypted file is in the vault byte-identical; and after a
\* batch with delete_encrypted=True in which every file succeeded the vault
\* lists no file, so that a following decrypt_vault returns the empty-vault
\* signal.
C40_EncryptedFilesKept ==
    (vm.op = "restore" /\ vm.pc = "done" /\ vm.ret = "stats")
    => /\ \A p \in DOMAIN vm.docs :
             /\ ~Exists(fs, p)
                => (/\ vm.del
                    /\ \E q \in ExportFiles(fs) :
                          fs[q].hdr = <<>> /\ DecryptsTo(vm.docs[p], vm.pw, fs[q].bytes))
             /\ (~vm.del \/ ErrorsFor(p) # {})
                => (Exists(fs, p) /\ fs[p] = vm.docs[p])
       /\ (vm.del /\ vm.results.failed = 0) => VaultFiles(fs) = {}

----------------------------------------------------------------------------
(* Further claims about the application *)

\* update() is about to call execute_task: the queue processed, the picker is
\* closed, a selection and a pending task are set and the selected path exists
ExecuteTaskCalled ==
    /\ ui.state = "MAIN"
    /\ ~ProcessQueue(ui).active
    /\ ProcessQueue(ui).selection_result # <<>>
    /\ ProcessQueue(ui).pending_task # ""
    /\ (ProcessQueue(ui).selection_result[1] = VaultRoot
            \/ Exists(fs, ProcessQueue(ui).selection_result[1]))
    /\ ui' = Update(ui, fs)

\* C35: at most one background task is in flight: loading is True from
\* execute_task until that task's FINISH is consumed, a thread runs only
\* while loading is True, and execute_task is never called while loading is
\* True or a thread is running, whatever the user does in between.
C35_OneTaskInFlight ==
    /\ [](ui.loading <=> (/\ ui.task.pc # "none"
                          /\ \A k \in DOMAIN ui.got : ui.got[k].kind # "FINISH"))
    /\ [](TaskRunning => ui.loading)
    /\ [][ExecuteTaskCalled
          => (~ProcessQueue(ui).loading /\ ~TaskRunning /\ ui'.loading)]_vars

\* a second task has ended and its FINISH is still on the queue
C35_Witness ==
    /\ ui.loading
    /\ ui.task.pc = "ended"
    /\ ui.task.action = "RESTORE"
    /\ Exists(fs, MkPath(EXPORT_DIR, <<"a">>))
    /\ \E k \in DOMAIN ui.queue : ui.queue[k].kind = "FINISH"

====
